---------------------------- MODULE Spec2Model ----------------------------
(***************************************************************************)
(* Model of lib-guitar-dsp: the YIN, MPM and Hybrid pitch detectors and    *)
(* the EMA, Median and Hybrid pitch stabilizers.                           *)
(*                                                                         *)
(* Numbers.  A C++ float is a number on a grid of 1/Scale: the integer v   *)
(* stands for v/Scale.  Every assignment of the source evaluates its       *)
(* right-hand side exactly and rounds once to the grid (RoundDiv); a term  *)
(* added to a running sum is rounded as it is added.  The                  *)
(* values a float division by zero produces (+Inf, -Inf, NaN) are kept as  *)
(* tagged values where the source can produce them (the parabolic          *)
(* refinement and everything computed from it).                            *)
(*                                                                         *)
(* Sizes.  Frames are about a dozen samples instead of 2048, so the        *)
(* high-water mark of the YIN scratch buffer (maxExpectedFrames, 4096 in   *)
(* the source) is scaled to 14 and the sample rates are scaled with it     *)
(* (320 Hz and 2880 Hz), which keeps the detected frequencies in the range *)
(* the harmonic rejection works on (80 Hz .. 1600 Hz).                     *)
(***************************************************************************)
EXTENDS Integers, Sequences, FiniteSets, TLC

VARIABLES
    det,            \* which detector the program constructed: "yin", "mpm", "hybrid"
    yinConfig,      \* YinPitchDetector::config
    mpmConfig,      \* MpmPitchDetector::config
    hybConfig,      \* HybridPitchDetector::config (without the nested configs)
    yinBuffer,      \* YinPitchDetector::yinBuffer
    nsdfBuffer,     \* MpmPitchDetector::nsdfBuffer
    acfBuffer,      \* MpmPitchDetector::acfBuffer
    rBuffer,        \* MpmPitchDetector::rBuffer
    mpmCapacity,    \* capacity of the three MPM vectors (they are resized together)
    yinUsedCount,   \* HybridPitchDetector::yinUsedCount
    mpmUsedCount,   \* HybridPitchDetector::mpmUsedCount
    call,           \* the last call on the detector: arguments, inner results, return value
    detects,        \* number of Detect calls since construction or the last Reset
    returned,       \* the Detect calls since construction or the last Reset that gave a result
    stab,           \* which stabilizer the program constructed: "ema", "median", "hybrid"
    emaConfig,      \* ExponentialMovingAverage::config (alpha)
    stabilized,     \* ExponentialMovingAverage::stabilized
    initialized,    \* ExponentialMovingAverage::initialized
    medConfig,      \* MedianFilter::config (windowSize)
    window,         \* MedianFilter::window
    writeIndex,     \* MedianFilter::writeIndex
    sampleCount,    \* MedianFilter::sampleCount
    hstConfig,      \* HybridStabilizer::config (baseAlpha; windowSize is medConfig)
    emaResult,      \* HybridStabilizer::emaResult
    hstInitialized, \* HybridStabilizer::initialized
    history,        \* the inputs of the Update calls since construction or the last Reset
    scall,          \* the last call on the stabilizer: operation, return value, allocation
    peer,           \* a second HybridStabilizer of the same config, for step responses
    discarded,      \* has a Reset of the stabilizer dropped inputs of earlier Updates
    ncall,          \* the last call of NoteConverter::NoteNameToMidi: arguments and outcome
    twin            \* a second detector instance, for comparing two instances

detVars  == <<det, yinConfig, mpmConfig, hybConfig, yinBuffer, nsdfBuffer, acfBuffer,
              rBuffer, mpmCapacity, yinUsedCount, mpmUsedCount, call, detects,
              returned>>
stabVars == <<stab, emaConfig, stabilized, initialized, medConfig, window, writeIndex,
              sampleCount, hstConfig, emaResult, hstInitialized, history, scall, peer,
              discarded>>
vars     == <<detVars, stabVars, ncall, twin>>

---------------------------------------------------------------------------
(* Bounds of the model *)

Scale     == 100   \* grid of the float model: 1/Scale
FrameLen  == 14    \* length N of the regular frames (H = N/2 = 7)
MaxCalls  == 2     \* Detect is called at most this often between two Resets
MaxUpdates == 5    \* Update is not called again once this many inputs are in the history

---------------------------------------------------------------------------
(* float arithmetic on the grid *)

Abs(x) == IF x < 0 THEN -x ELSE x

\* a / b rounded to the nearest integer, b # 0
RoundDiv(a, b) ==
    LET q == (2 * Abs(a) + Abs(b)) \div (2 * Abs(b))
    IN  IF (a < 0) = (b < 0) THEN q ELSE -q

\* the float n/d (n, d integers, d > 0) on the grid
Fx(n, d) == RoundDiv(n * Scale, d)

\* float product and quotient of two grid values
FMul(a, b) == RoundDiv(a * b, Scale)
FDiv(a, b) == RoundDiv(a * Scale, b)

\* tagged floats: a grid value, or what IEEE division by zero yields
Num(v) == [k |-> "num", v |-> v]
PInf   == [k |-> "pinf", v |-> 0]
NInf   == [k |-> "ninf", v |-> 0]
NaN    == [k |-> "nan", v |-> 0]

IsNum(a) == a.k = "num"

\* a <= b and a >= b on tagged floats (false when either is NaN)
TLe(a, b) ==
    CASE a.k = "nan" \/ b.k = "nan" -> FALSE
      [] a.k = "ninf" \/ b.k = "pinf" -> TRUE
      [] a.k = "pinf" \/ b.k = "ninf" -> FALSE
      [] OTHER -> a.v <= b.v
TGe(a, b) == TLe(b, a)
TGt(a, b) == TGe(a, b) /\ ~TLe(a, b)

\* PitchResult and std::optional<PitchResult>; "crash" is a call that never returned
NoResult  == [st |-> "none", frequency |-> Num(0), confidence |-> 0]
CrashResult == [st |-> "crash", frequency |-> Num(0), confidence |-> 0]
Some(f, c) == [st |-> "some", frequency |-> f, confidence |-> c]

---------------------------------------------------------------------------
(* Program constants *)

maxExpectedFrames == 14
maxYinBufferSize  == maxExpectedFrames \div 2

\* HybridPitchDetector's constructor overrides of the YIN configuration
HybridYinThreshold == Fx(10, 100)
HybridYinMinFrequency == 80
HybridYinMaxFrequency == 1200

\* guitar fundamental range of ApplyHarmonicRejection, and the overwrite threshold
FundamentalMin == 80
FundamentalMax == 400
CorrectionMin  == Fx(1, 10)


---------------------------------------------------------------------------
(* YinPitchDetector *)

\* element i (counted from 0, as in the source) of a buffer or frame
At(buf, i) == buf[i + 1]

\* the vector with the elements of f, as a sequence
Vector(f) == f \o <<>>

\* step 1, inner loop: sum over i < n of (buffer[i] - buffer[i + tau])^2
RECURSIVE YinDifference(_, _, _)
YinDifference(buffer, tau, n) ==
    IF n = 0 THEN 0
    ELSE LET delta == At(buffer, n - 1) - At(buffer, n - 1 + tau)
         IN  YinDifference(buffer, tau, n - 1) + FMul(delta, delta)

\* step 1: yinBuffer[tau] = d(tau) for tau < halfBufferSize, the rest untouched
YinStep1(buf, buffer, halfBufferSize) ==
    Vector([t \in 1..Len(buf) |->
        IF t <= halfBufferSize
        THEN YinDifference(buffer, t - 1, halfBufferSize)
        ELSE buf[t]])

\* runningSum after the loop iteration for tau: d(1) + ... + d(tau)
RECURSIVE YinRunningSum(_, _)
YinRunningSum(buf, tau) ==
    IF tau = 0 THEN 0 ELSE YinRunningSum(buf, tau - 1) + At(buf, tau)

\* step 2: cumulative mean normalized difference
YinStep2(buf, halfBufferSize) ==
    Vector([t \in 1..Len(buf) |->
        IF t > halfBufferSize THEN buf[t]
        ELSE IF t = 1 THEN Scale
        ELSE LET runningSum == YinRunningSum(buf, t - 1)
             IN  IF runningSum # 0
                 THEN RoundDiv(buf[t] * (t - 1) * Scale, runningSum)
                 ELSE Scale])

\* (s2 - s0) / (2 * (2 * s1 - s2 - s0)) in IEEE arithmetic
ParabolicAdjustment(s0, s1, s2) ==
    LET num == s2 - s0
        den == 2 * (2 * s1 - s2 - s0)
    IN  IF den # 0 THEN Num(RoundDiv(num * Scale, den))
        ELSE IF num > 0 THEN PInf
        ELSE IF num < 0 THEN NInf
        ELSE NaN

\* static_cast<float>(tau) + adjustment
TauPlus(tau, adjustment) ==
    IF IsNum(adjustment) THEN Num(tau * Scale + adjustment.v) ELSE adjustment

\* sampleRate / betterTau in IEEE arithmetic (sampleRate > 0)
FrequencyOf(sampleRate, betterTau) ==
    CASE betterTau.k = "nan" -> NaN
      [] betterTau.k \in {"pinf", "ninf"} -> Num(0)
      [] betterTau.v = 0 -> PInf
      [] OTHER -> Num(RoundDiv(sampleRate * Scale * Scale, betterTau.v))

\* step 4 and the result for the accepted tau
YinResultAt(buf, tau, halfBufferSize, sampleRate) ==
    LET betterTau ==
            IF tau > 0 /\ tau < halfBufferSize - 1
            THEN TauPlus(tau, ParabolicAdjustment(At(buf, tau - 1), At(buf, tau),
                                                  At(buf, tau + 1)))
            ELSE Num(tau * Scale)
    IN  Some(FrequencyOf(sampleRate, betterTau), Scale - At(buf, tau))

\* a faulty step 3 that walks on from the first crossing to the bottom of the dip
RECURSIVE YinThresholdScan_LocalMinimum(_, _, _, _, _, _)
YinThresholdScan_LocalMinimum(buf, tau, maxTau, threshold, halfBufferSize, sampleRate) ==
    IF tau >= maxTau THEN NoResult
    ELSE IF At(buf, tau) < threshold /\ (tau + 1 >= maxTau \/ At(buf, tau + 1) >= At(buf, tau))
         THEN YinResultAt(buf, tau, halfBufferSize, sampleRate)
         ELSE YinThresholdScan_LocalMinimum(buf, tau + 1, maxTau, threshold, halfBufferSize, sampleRate)

\* step 3: the while loop from tau upward
RECURSIVE YinThresholdScan(_, _, _, _, _, _)
YinThresholdScan(buf, tau, maxTau, threshold, halfBufferSize, sampleRate) ==
    IF tau >= maxTau THEN NoResult
    ELSE IF At(buf, tau) < threshold
         THEN YinResultAt(buf, tau, halfBufferSize, sampleRate)
         ELSE YinThresholdScan(buf, tau + 1, maxTau, threshold, halfBufferSize, sampleRate)

\* YinPitchDetector::Detect: the returned value and the scratch buffer it leaves
YinDetect(config, buf, buffer, sampleRate) ==
    LET bufferSize == Len(buffer)
        minTau == sampleRate \div config.maxFrequency
        maxTau == sampleRate \div config.minFrequency
        halfBufferSize == bufferSize \div 2
        cmndf == YinStep2(YinStep1(buf, buffer, halfBufferSize), halfBufferSize)
    IN  IF bufferSize = 0 \/ sampleRate <= 0 THEN [res |-> NoResult, buf |-> buf]
        ELSE IF maxTau >= halfBufferSize THEN [res |-> NoResult, buf |-> buf]
        ELSE IF halfBufferSize > Len(buf) THEN [res |-> NoResult, buf |-> buf]
        ELSE [res |-> YinThresholdScan(cmndf, minTau, maxTau, config.threshold,
                                       halfBufferSize, sampleRate),
              buf |-> cmndf]

\* YinPitchDetector::YinPitchDetector and Reset: the scratch is all zeros
YinNewBuffer == [t \in 1..maxYinBufferSize |-> 0]
YinResetBuffer(buf) == [t \in 1..Len(buf) |-> 0]

---------------------------------------------------------------------------
(* MpmPitchDetector *)

\* sum over j < n of buffer[j] * buffer[j + tau]
RECURSIVE MpmAcf(_, _, _)
MpmAcf(buffer, tau, n) ==
    IF n = 0 THEN 0
    ELSE MpmAcf(buffer, tau, n - 1) + FMul(At(buffer, n - 1), At(buffer, n - 1 + tau))

\* sum1 + sum2: sum over j < n of buffer[j]^2 + buffer[j + tau]^2
RECURSIVE MpmR(_, _, _)
MpmR(buffer, tau, n) ==
    IF n = 0 THEN 0
    ELSE MpmR(buffer, tau, n - 1) + FMul(At(buffer, n - 1), At(buffer, n - 1))
                                  + FMul(At(buffer, n - 1 + tau), At(buffer, n - 1 + tau))

\* MpmPitchDetector::ComputeNSDF: the three buffers it fills (all of size halfSize)
ComputeNSDF(buffer) ==
    LET halfSize == Len(buffer) \div 2
        acf == Vector([t \in 1..halfSize |-> MpmAcf(buffer, t - 1, halfSize)])
        r   == Vector([t \in 1..halfSize |-> MpmR(buffer, t - 1, halfSize)])
    IN  [acf  |-> acf,
         r    |-> r,
         nsdf |-> Vector([t \in 1..halfSize |->
                      IF r[t] > 0 THEN RoundDiv(2 * acf[t] * Scale, r[t]) ELSE 0])]

\* FindPeaks, first loop: the indices i >= 1 with nsdf[i-1] <= 0 < nsdf[i], ascending
RECURSIVE ZeroCrossingsFrom(_, _)
ZeroCrossingsFrom(nsdf, i) ==
    IF i >= Len(nsdf) THEN <<>>
    ELSE IF At(nsdf, i - 1) <= 0 /\ At(nsdf, i) > 0
         THEN <<i>> \o ZeroCrossingsFrom(nsdf, i + 1)
         ELSE ZeroCrossingsFrom(nsdf, i + 1)
ZeroCrossings(nsdf) == ZeroCrossingsFrom(nsdf, 1)

\* FindPeaks, inner loop: the first index of the greatest value in [j, end), given the
\* best index so far
RECURSIVE RegionMax(_, _, _, _)
RegionMax(nsdf, maxIdx, j, end) ==
    IF j >= end THEN maxIdx
    ELSE RegionMax(nsdf, IF At(nsdf, j) > At(nsdf, maxIdx) THEN j ELSE maxIdx, j + 1, end)

\* FindPeaks, second loop, from region i on (zc has at least one element)
RECURSIVE PeaksFrom(_, _, _, _)
PeaksFrom(nsdf, zc, i, threshold) ==
    IF i >= Len(zc) - 1 THEN <<>>
    ELSE LET start  == At(zc, i)
             maxIdx == RegionMax(nsdf, start, start + 1, At(zc, i + 1))
         IN  (IF At(nsdf, maxIdx) >= threshold THEN <<maxIdx>> ELSE <<>>)
             \o PeaksFrom(nsdf, zc, i + 1, threshold)

\* What the second loop of FindPeaks can do when zeroCrossings is empty:
\* zeroCrossings.size() - 1 wraps to SIZE_MAX, the loop is entered and reads
\* zeroCrossings[0] and [1] of a vector that holds nothing. The read faults, or yields
\* garbage from which the call comes back with no peak or with some index as a peak.
UndefinedPeaks(halfSize) ==
    {[oob |-> TRUE, crash |-> TRUE, alloc |-> FALSE, peaks |-> <<>>],
     [oob |-> TRUE, crash |-> FALSE, alloc |-> FALSE, peaks |-> <<>>]}
    \cup {[oob |-> TRUE, crash |-> FALSE, alloc |-> TRUE, peaks |-> <<j>>] :
              j \in 0..(halfSize - 1)}

\* MpmPitchDetector::FindPeaks: the set of its possible outcomes (one, unless the
\* behaviour is undefined)
FindPeaks(nsdf, threshold) ==
    LET zc == ZeroCrossings(nsdf)
    IN  IF Len(zc) = 0 THEN UndefinedPeaks(Len(nsdf))
        ELSE {[oob |-> FALSE, crash |-> FALSE, alloc |-> TRUE,
               peaks |-> PeaksFrom(nsdf, zc, 0, threshold)]}

\* Detect, "get highest peak": the first peak holding the greatest NSDF value
RECURSIVE HighestPeak(_, _, _, _)
HighestPeak(nsdf, peaks, i, maxTauPeak) ==
    IF i > Len(peaks) THEN maxTauPeak
    ELSE HighestPeak(nsdf, peaks, i + 1,
                     IF At(nsdf, peaks[i]) > At(nsdf, maxTauPeak) THEN peaks[i]
                     ELSE maxTauPeak)

\* MpmPitchDetector::ParabolicInterpolation
ParabolicInterpolation(nsdf, tau) ==
    IF tau <= 0 \/ tau >= Len(nsdf) - 1 THEN Num(tau * Scale)
    ELSE TauPlus(tau, ParabolicAdjustment(At(nsdf, tau - 1), At(nsdf, tau),
                                          At(nsdf, tau + 1)))

\* the result Detect builds from the peaks
MpmResultOf(nsdf, peaks, sampleRate) ==
    LET maxTauPeak == HighestPeak(nsdf, peaks, 1, peaks[1])
        refinedTau == ParabolicInterpolation(nsdf, maxTauPeak)
    IN  IF TLe(refinedTau, Num(0)) THEN NoResult
        ELSE Some(FrequencyOf(sampleRate, refinedTau), At(nsdf, maxTauPeak))

\* a faulty Detect without the test for a frame too short for minFrequency
MpmDetect_NoShortGuard(config, bufs, capacity, buffer, sampleRate) ==
    LET bufferSize == Len(buffer)
        halfSize   == bufferSize \div 2
        resize     == Len(bufs.nsdf) # halfSize
        grown      == halfSize > capacity
        computed   == ComputeNSDF(buffer)
        rejected   == [res |-> NoResult, bufs |-> bufs, capacity |-> capacity,
                       resized |-> FALSE, alloc |-> FALSE, oob |-> FALSE]
    IN  IF bufferSize = 0 \/ sampleRate <= 0 THEN {rejected}
        ELSE {[res |-> IF found.crash THEN CrashResult
                       ELSE IF Len(found.peaks) = 0 THEN NoResult
                       ELSE MpmResultOf(computed.nsdf, found.peaks, sampleRate),
               bufs |-> computed,
               capacity |-> IF grown THEN halfSize ELSE capacity,
               resized |-> resize,
               alloc |-> grown \/ found.alloc,
               oob |-> found.oob] : found \in FindPeaks(computed.nsdf, config.threshold)}

\* MpmPitchDetector::Detect: the possible outcomes, each the returned value, the
\* buffers and the capacity it leaves, and whether it resized, allocated or read out
\* of bounds
MpmDetect(config, bufs, capacity, buffer, sampleRate) ==
    LET bufferSize == Len(buffer)
        maxTau     == sampleRate \div config.minFrequency
        halfSize   == bufferSize \div 2
        resize     == Len(bufs.nsdf) # halfSize
        grown      == halfSize > capacity
        computed   == ComputeNSDF(buffer)
        rejected   == [res |-> NoResult, bufs |-> bufs, capacity |-> capacity,
                       resized |-> FALSE, alloc |-> FALSE, oob |-> FALSE]
    IN  IF bufferSize = 0 \/ sampleRate <= 0 THEN {rejected}
        ELSE IF maxTau >= halfSize THEN {rejected}
        ELSE {[res |-> IF found.crash THEN CrashResult
                       ELSE IF Len(found.peaks) = 0 THEN NoResult
                       ELSE MpmResultOf(computed.nsdf, found.peaks, sampleRate),
               bufs |-> computed,
               capacity |-> IF grown THEN halfSize ELSE capacity,
               resized |-> resize,
               alloc |-> grown \/ found.alloc,
               oob |-> found.oob] : found \in FindPeaks(computed.nsdf, config.threshold)}

\* MpmPitchDetector::MpmPitchDetector and Reset: three empty vectors
MpmEmptyBuffers == [acf |-> <<>>, r |-> <<>>, nsdf |-> <<>>]

---------------------------------------------------------------------------
(* HybridPitchDetector *)

\* the constructor's yinCfg: the caller's YIN configuration with three fields replaced
HybridYinConfig(userYinConfig) ==
    [userYinConfig EXCEPT !.threshold = HybridYinThreshold,
                          !.minFrequency = HybridYinMinFrequency,
                          !.maxFrequency = HybridYinMaxFrequency]

\* frequency / k for k = 2.0f, 3.0f, 4.0f
FDivInt(frequency, k) ==
    IF IsNum(frequency) THEN Num(RoundDiv(frequency.v, k)) ELSE frequency

\* a faulty IsHarmonic that takes every quotient for a fundamental
IsHarmonic_Always(config, freq1, freq2, harmonicNumber) == IsNum(freq1) /\ IsNum(freq2)

\* HybridPitchDetector::IsHarmonic, called with freq2 = freq1 / harmonicNumber. Halving
\* and quartering are exact in binary floating point, so freq2 * 2 and freq2 * 4 give
\* freq1 back; freq2 * 3 carries the rounding of the division by 3.
IsHarmonic(config, freq1, freq2, harmonicNumber) ==
    IF ~(IsNum(freq1) /\ IsNum(freq2)) THEN FALSE
    ELSE LET expectedHarmonic == IF harmonicNumber \in {2, 4} THEN freq1.v
                                 ELSE freq2.v * harmonicNumber
             diff == Abs(freq1.v - expectedHarmonic)
             tolerance == FMul(expectedHarmonic, config.harmonicTolerance)
         IN  diff <= tolerance

\* frequency / k >= bound and <= bound. The quotient is compared before it is rounded
\* to the grid: 80 and 400 are floats, and the float quotient lies on the same side of
\* them as the exact one.
QuotientGe(frequency, k, bound) ==
    CASE frequency.k = "nan" -> FALSE
      [] frequency.k = "pinf" -> TRUE
      [] frequency.k = "ninf" -> FALSE
      [] OTHER -> frequency.v >= k * bound * Scale
QuotientLe(frequency, k, bound) ==
    CASE frequency.k = "nan" -> FALSE
      [] frequency.k = "pinf" -> FALSE
      [] frequency.k = "ninf" -> TRUE
      [] OTHER -> frequency.v <= k * bound * Scale

\* one of the three blocks of ApplyHarmonicRejection: is frequency / k accepted
HarmonicAccepted(config, frequency, k) ==
    /\ QuotientGe(frequency, k, FundamentalMin)
    /\ QuotientLe(frequency, k, FundamentalMax)
    /\ IsHarmonic(config, frequency, FDivInt(frequency, k), k)

\* a faulty ApplyHarmonicRejection that tries the divisors in the order 2, 4, 3
ApplyHarmonicRejection_4Before3(config, frequency) ==
    IF HarmonicAccepted(config, frequency, 2) THEN FDivInt(frequency, 2)
    ELSE IF HarmonicAccepted(config, frequency, 4) THEN FDivInt(frequency, 4)
    ELSE IF HarmonicAccepted(config, frequency, 3) THEN FDivInt(frequency, 3)
    ELSE frequency

\* HybridPitchDetector::ApplyHarmonicRejection
ApplyHarmonicRejection(config, frequency) ==
    IF HarmonicAccepted(config, frequency, 2) THEN FDivInt(frequency, 2)
    ELSE IF HarmonicAccepted(config, frequency, 3) THEN FDivInt(frequency, 3)
    ELSE IF HarmonicAccepted(config, frequency, 4) THEN FDivInt(frequency, 4)
    ELSE frequency

\* std::abs(correctedFreq - finalResult->frequency) > 0.1f
CorrectedEnough(correctedFreq, frequency) ==
    IsNum(correctedFreq) /\ IsNum(frequency)
    /\ Abs(correctedFreq.v - frequency.v) > CorrectionMin

\* Detect, the last block: harmonic rejection of the selected result
HybridFinish(config, finalResult) ==
    IF finalResult.st = "some" /\ config.enableHarmonicRejection
    THEN LET correctedFreq == ApplyHarmonicRejection(config, finalResult.frequency)
         IN  IF CorrectedEnough(correctedFreq, finalResult.frequency)
             THEN [finalResult EXCEPT !.frequency = correctedFreq]
             ELSE finalResult
    ELSE finalResult

\* a faulty arbitration test that takes YIN only when its confidence is strictly
\* above the threshold
YinConfident_Strict(config, yinResult) ==
    yinResult.st = "some" /\ yinResult.confidence > config.yinConfidenceThreshold

\* Detect, the arbitration: is the YIN result taken without asking MPM
YinConfident(config, yinResult) ==
    yinResult.st = "some" /\ yinResult.confidence >= config.yinConfidenceThreshold

\* the record of a call that has not happened
NotInvoked == [st |-> "notinvoked", frequency |-> Num(0), confidence |-> 0]

\* a faulty else branch that counts a selected MPM result as a use of YIN
HybridFallback_CountsYin(config, tried, y, m, yinUsed, mpmUsed) ==
    LET after == [tried EXCEPT !.mpm = m.res, !.mpmInvoked = TRUE,
                               !.bufs = m.bufs, !.capacity = m.capacity,
                               !.resized = m.resized, !.alloc = m.alloc, !.oob = m.oob]
    IN  IF m.res.st = "crash"
        THEN [after EXCEPT !.selected = CrashResult, !.out = CrashResult]
        ELSE IF m.res.st = "some"
        THEN [after EXCEPT !.selected = m.res, !.out = HybridFinish(config, m.res),
                           !.yinUsed = yinUsed + 1]
        ELSE IF y.res.st = "some"
        THEN [after EXCEPT !.selected = y.res, !.out = HybridFinish(config, y.res),
                           !.yinUsed = yinUsed + 1]
        ELSE after

\* Detect, the else branch of the arbitration, given what MPM did
HybridFallback(config, tried, y, m, yinUsed, mpmUsed) ==
    LET after == [tried EXCEPT !.mpm = m.res, !.mpmInvoked = TRUE,
                               !.bufs = m.bufs, !.capacity = m.capacity,
                               !.resized = m.resized, !.alloc = m.alloc, !.oob = m.oob]
    IN  IF m.res.st = "crash"
        THEN [after EXCEPT !.selected = CrashResult, !.out = CrashResult]
        ELSE IF m.res.st = "some"
        THEN [after EXCEPT !.selected = m.res, !.out = HybridFinish(config, m.res),
                           !.mpmUsed = mpmUsed + 1]
        ELSE IF y.res.st = "some"
        THEN [after EXCEPT !.selected = y.res, !.out = HybridFinish(config, y.res),
                           !.yinUsed = yinUsed + 1]
        ELSE after

\* HybridPitchDetector::Detect: the possible outcomes, each the inner results, the
\* selection, the return value, the inner detectors' state and the counters it leaves
HybridDetect(config, yCfg, mCfg, yBuf, bufs, capacity, yinUsed, mpmUsed, buffer, sampleRate) ==
    LET y == YinDetect(yCfg, yBuf, buffer, sampleRate)
        untouched == [yin |-> NotInvoked, mpm |-> NotInvoked, mpmInvoked |-> FALSE,
                      selected |-> NoResult, out |-> NoResult,
                      yBuf |-> yBuf, bufs |-> bufs, capacity |-> capacity,
                      yinUsed |-> yinUsed, mpmUsed |-> mpmUsed,
                      resized |-> FALSE, alloc |-> FALSE, oob |-> FALSE]
        tried == [untouched EXCEPT !.yin = y.res, !.yBuf = y.buf]
    IN  IF Len(buffer) = 0 \/ sampleRate <= 0 THEN {untouched}
        ELSE IF YinConfident(config, y.res)
        THEN {[tried EXCEPT !.selected = y.res, !.out = HybridFinish(config, y.res),
                            !.yinUsed = yinUsed + 1]}
        ELSE {HybridFallback(config, tried, y, m, yinUsed, mpmUsed) :
                 m \in MpmDetect(mCfg, bufs, capacity, buffer, sampleRate)}

---------------------------------------------------------------------------
(* Configurations and inputs of the detector program *)

\* the default member initializers of the Config structs
YinDefaultConfig == [threshold |-> Fx(15, 100), minFrequency |-> 80, maxFrequency |-> 1200]
MpmDefaultConfig == [threshold |-> Fx(93, 100), minFrequency |-> 80, maxFrequency |-> 1200,
                     cutoff |-> Fx(97, 100), smallCutoff |-> Fx(50, 100)]
HybridDefaultConfig == [yinConfidenceThreshold |-> Fx(80, 100),
                        enableHarmonicRejection |-> TRUE,
                        harmonicTolerance |-> Fx(5, 100)]

\* the configurations the program is constructed with (all valid: 0 < min < max)
YinConfigs == {YinDefaultConfig, [YinDefaultConfig EXCEPT !.maxFrequency = 100],
               [YinDefaultConfig EXCEPT !.threshold = Fx(50, 100), !.minFrequency = 50]}
MpmConfigs == {MpmDefaultConfig, [MpmDefaultConfig EXCEPT !.minFrequency = 720]}
HybridConfigs ==
    {[hyb |-> HybridDefaultConfig, yin |-> YinDefaultConfig, mpm |-> MpmDefaultConfig],
     [hyb |-> HybridDefaultConfig,
      yin |-> [threshold |-> Fx(50, 100), minFrequency |-> 100, maxFrequency |-> 1000],
      mpm |-> MpmDefaultConfig],
     [hyb |-> [HybridDefaultConfig EXCEPT !.yinConfidenceThreshold = Scale],
      yin |-> YinDefaultConfig,
      mpm |-> [MpmDefaultConfig EXCEPT !.minFrequency = 720]],
     [hyb |-> [HybridDefaultConfig EXCEPT !.yinConfidenceThreshold = Scale,
                                          !.enableHarmonicRejection = FALSE],
      yin |-> YinDefaultConfig,
      mpm |-> [MpmDefaultConfig EXCEPT !.threshold = Fx(80, 100)]],
     [hyb |-> [HybridDefaultConfig EXCEPT !.harmonicTolerance = 0],
      yin |-> YinDefaultConfig,
      mpm |-> [MpmDefaultConfig EXCEPT !.minFrequency = 720]]}

\* frames (samples are grid values): periodic signals of amplitude 1 (a constant and
\* periods 2, 3 and 4), the same with one sample zeroed, silence, a swelling signal,
\* signals of periods 5 and 6
Patterns == {<<1>>, <<1, -1>>, <<1, 1, -1>>, <<1, -1, 1>>, <<1, -1, -1>>, <<1, 1, -1, -1>>}
Periodic(pat, n) == [i \in 1..n |-> Scale * pat[((i - 1) % Len(pat)) + 1]]
\* an alternating signal whose amplitude steps from 0.25 to 0.26 at mid-frame
Swelling(n) ==
    [i \in 1..n |-> (IF i % 2 = 1 THEN 1 ELSE -1)
                       * (IF i <= n \div 2 THEN Fx(25, 100) ELSE Fx(26, 100))]
Glitched(frame) == [frame EXCEPT ![8] = 0]
Silent(n) == [i \in 1..n |-> 0]
ShortLen == 8
LongLen  == maxExpectedFrames + 2
RegularFrames ==
    {Periodic(pat, FrameLen) : pat \in Patterns}
    \cup {Glitched(Periodic(pat, FrameLen)) : pat \in Patterns}
    \cup {Silent(FrameLen)}
EdgeFrames == {<<>>, Periodic(<<1, -1>>, ShortLen), Periodic(<<1, -1>>, LongLen),
               Silent(LongLen), Swelling(FrameLen), Periodic(<<2, 2, -1, -2, 1>>, FrameLen),
               Periodic(<<0, 1, 2, 1, 1, 0>>, FrameLen)}
LowRate  == 320
HighRate == 2880
DetectInputs ==
    (RegularFrames \X {LowRate, HighRate})
    \cup (EdgeFrames \X {LowRate})
    \cup {<<Periodic(<<1, -1>>, FrameLen), 0>>, <<Periodic(<<1, -1>>, FrameLen), -LowRate>>}

---------------------------------------------------------------------------
(* The detector program *)

NoCall == [op |-> "none", buffer |-> <<>>, sampleRate |-> 0,
           yin |-> NotInvoked, mpm |-> NotInvoked, mpmInvoked |-> FALSE,
           selected |-> NoResult, out |-> NoResult,
           resized |-> FALSE, alloc |-> FALSE, oob |-> FALSE]

Crashed == call.out.st = "crash"

\* no second detector is constructed
NoTwin == [op |-> "none"]

\* NoteConverter::NoteNameToMidi has not been called
NoNoteCall == [op |-> "none", noteName |-> <<>>, octave |-> 0,
               out |-> [st |-> "none", v |-> 0]]

\* no stabilizer is constructed in the detector program
\* no second stabilizer is constructed
NoPeer == [window |-> <<>>, writeIndex |-> 0, sampleCount |-> 0,
           emaResult |-> [frequency |-> 0, confidence |-> 0], initialized |-> FALSE,
           confidence |-> 0, ownConfidence |-> 0, old |-> 0, target |-> 0, steps |-> 0]

NoStabilizer ==
    /\ stab = "none"
    /\ peer = NoPeer
    /\ discarded = FALSE
    /\ emaConfig = [alpha |-> 0]
    /\ stabilized = [frequency |-> 0, confidence |-> 0]
    /\ initialized = FALSE
    /\ medConfig = [windowSize |-> 0]
    /\ window = <<>>
    /\ writeIndex = 0
    /\ sampleCount = 0
    /\ hstConfig = [baseAlpha |-> 0]
    /\ emaResult = [frequency |-> 0, confidence |-> 0]
    /\ hstInitialized = FALSE
    /\ history = <<>>
    /\ scall = [op |-> "none", out |-> [frequency |-> 0, confidence |-> 0],
                alloc |-> FALSE]

\* the constructors
Init ==
    /\ ncall = NoNoteCall
    /\ twin = NoTwin
    /\ NoStabilizer
    /\ yinBuffer = YinNewBuffer
    /\ nsdfBuffer = <<>> /\ acfBuffer = <<>> /\ rBuffer = <<>>
    /\ mpmCapacity = 0
    /\ yinUsedCount = 0 /\ mpmUsedCount = 0
    /\ call = NoCall
    /\ detects = 0
    /\ returned = 0
    /\ \/ /\ det = "yin"
          /\ yinConfig \in YinConfigs
          /\ mpmConfig = MpmDefaultConfig
          /\ hybConfig = HybridDefaultConfig
       \/ /\ det = "mpm"
          /\ yinConfig = YinDefaultConfig
          /\ mpmConfig \in MpmConfigs
          /\ hybConfig = HybridDefaultConfig
       \/ /\ det = "hybrid"
          /\ \E c \in HybridConfigs :
                /\ yinConfig = HybridYinConfig(c.yin)
                /\ mpmConfig = c.mpm
                /\ hybConfig = c.hyb

MpmBuffers == [acf |-> acfBuffer, r |-> rBuffer, nsdf |-> nsdfBuffer]

\* a call of YinPitchDetector::Detect on the standalone detector
YinDetectCall ==
    /\ det = "yin" /\ ~Crashed
    /\ detects < MaxCalls
    /\ detects' = detects + 1
    /\ \E in \in DetectInputs :
         LET d == YinDetect(yinConfig, yinBuffer, in[1], in[2])
         IN  /\ yinBuffer' = d.buf
             /\ call' = [NoCall EXCEPT !.op = "detect", !.buffer = in[1],
                                       !.sampleRate = in[2], !.yin = d.res, !.out = d.res]
             /\ returned' = IF d.res.st = "some" THEN returned + 1 ELSE returned
    /\ UNCHANGED <<det, yinConfig, mpmConfig, hybConfig, nsdfBuffer, acfBuffer, rBuffer,
                   mpmCapacity, yinUsedCount, mpmUsedCount, stabVars, ncall, twin>>

\* YinPitchDetector::Reset
YinResetCall ==
    /\ det = "yin" /\ ~Crashed
    /\ yinBuffer' = YinResetBuffer(yinBuffer)
    /\ call' = [NoCall EXCEPT !.op = "reset"]
    /\ detects' = 0
    /\ returned' = 0
    /\ UNCHANGED <<det, yinConfig, mpmConfig, hybConfig, nsdfBuffer, acfBuffer, rBuffer,
                   mpmCapacity, yinUsedCount, mpmUsedCount, stabVars, ncall, twin>>

\* a call of MpmPitchDetector::Detect on the standalone detector
MpmDetectCall ==
    /\ det = "mpm" /\ ~Crashed
    /\ detects < MaxCalls
    /\ detects' = detects + 1
    /\ \E in \in DetectInputs :
         \E d \in MpmDetect(mpmConfig, MpmBuffers, mpmCapacity, in[1], in[2]) :
             /\ nsdfBuffer' = d.bufs.nsdf
             /\ acfBuffer' = d.bufs.acf
             /\ rBuffer' = d.bufs.r
             /\ mpmCapacity' = d.capacity
             /\ call' = [NoCall EXCEPT !.op = "detect", !.buffer = in[1],
                                       !.sampleRate = in[2], !.mpm = d.res,
                                       !.mpmInvoked = TRUE, !.out = d.res,
                                       !.resized = d.resized, !.alloc = d.alloc,
                                       !.oob = d.oob]
             /\ returned' = IF d.res.st = "some" THEN returned + 1 ELSE returned
    /\ UNCHANGED <<det, yinConfig, mpmConfig, hybConfig, yinBuffer,
                   yinUsedCount, mpmUsedCount, stabVars, ncall, twin>>

\* MpmPitchDetector::Reset
MpmResetCall ==
    /\ det = "mpm" /\ ~Crashed
    /\ nsdfBuffer' = <<>> /\ acfBuffer' = <<>> /\ rBuffer' = <<>>
    /\ call' = [NoCall EXCEPT !.op = "reset"]
    /\ detects' = 0
    /\ returned' = 0
    /\ UNCHANGED <<det, yinConfig, mpmConfig, hybConfig, yinBuffer, mpmCapacity,
                   yinUsedCount, mpmUsedCount, stabVars, ncall, twin>>

\* a call of HybridPitchDetector::Detect
HybridDetectCall ==
    /\ det = "hybrid" /\ ~Crashed
    /\ detects < MaxCalls
    /\ detects' = detects + 1
    /\ \E in \in DetectInputs :
         \E d \in HybridDetect(hybConfig, yinConfig, mpmConfig, yinBuffer, MpmBuffers,
                               mpmCapacity, yinUsedCount, mpmUsedCount, in[1], in[2]) :
             /\ yinBuffer' = d.yBuf
             /\ nsdfBuffer' = d.bufs.nsdf
             /\ acfBuffer' = d.bufs.acf
             /\ rBuffer' = d.bufs.r
             /\ mpmCapacity' = d.capacity
             /\ yinUsedCount' = d.yinUsed
             /\ mpmUsedCount' = d.mpmUsed
             /\ call' = [op |-> "detect", buffer |-> in[1], sampleRate |-> in[2],
                         yin |-> d.yin, mpm |-> d.mpm, mpmInvoked |-> d.mpmInvoked,
                         selected |-> d.selected, out |-> d.out,
                         resized |-> d.resized, alloc |-> d.alloc, oob |-> d.oob]
             /\ returned' = IF d.out.st = "some" THEN returned + 1 ELSE returned
    /\ UNCHANGED <<det, yinConfig, mpmConfig, hybConfig, stabVars, ncall, twin>>

\* HybridPitchDetector::Reset
HybridResetCall ==
    /\ det = "hybrid" /\ ~Crashed
    /\ yinBuffer' = YinResetBuffer(yinBuffer)
    /\ nsdfBuffer' = <<>> /\ acfBuffer' = <<>> /\ rBuffer' = <<>>
    /\ yinUsedCount' = 0
    /\ mpmUsedCount' = 0
    /\ call' = [NoCall EXCEPT !.op = "reset"]
    /\ detects' = 0
    /\ returned' = 0
    /\ UNCHANGED <<det, yinConfig, mpmConfig, hybConfig, mpmCapacity, stabVars, ncall, twin>>

Next ==
    \/ YinDetectCall
    \/ YinResetCall
    \/ MpmDetectCall
    \/ MpmResetCall
    \/ HybridDetectCall
    \/ HybridResetCall

Spec == Init /\ [][Next]_vars

---------------------------------------------------------------------------
(* ExponentialMovingAverage *)

\* a PitchResult handed to a stabilizer: two finite floats
Pitch(f, c) == [frequency |-> f, confidence |-> c]
ZeroPitch == Pitch(0, 0)

\* a faulty blend with the two weights swapped
Blend_Swapped(alpha, x, y) == RoundDiv((Scale - alpha) * x + alpha * y, Scale)

\* alpha * x + (1 - alpha) * y
Blend(alpha, x, y) == RoundDiv(alpha * x + (Scale - alpha) * y, Scale)

\* a faulty Update that blends the first sample with the zero it starts from
EmaUpdate_NoInit(config, isInitialized, current, result) ==
    Pitch(Blend(config.alpha, result.frequency, current.frequency),
          Blend(config.alpha, result.confidence, current.confidence))

\* ExponentialMovingAverage::Update: the new value of stabilized
EmaUpdate(config, isInitialized, current, result) ==
    IF ~isInitialized THEN result
    ELSE Pitch(Blend(config.alpha, result.frequency, current.frequency),
               Blend(config.alpha, result.confidence, current.confidence))

---------------------------------------------------------------------------
(* MedianFilter *)

\* MedianFilter::MedianFilter and Reset: the window holds windowSize zero results
MedianNewWindow(config) == [i \in 1..config.windowSize |-> ZeroPitch]

\* MedianFilter::Update: the new window, writeIndex and sampleCount
MedianUpdate(config, win, wIndex, count, result) ==
    [window |-> [win EXCEPT ![wIndex + 1] = result],
     writeIndex |-> (wIndex + 1) % config.windowSize,
     sampleCount |-> IF count < config.windowSize THEN count + 1 ELSE count]

\* std::sort of a vector of floats: ascending
RECURSIVE SortInsert(_, _)
SortInsert(sorted, x) ==
    IF sorted = <<>> THEN <<x>>
    ELSE IF x <= Head(sorted) THEN <<x>> \o sorted
    ELSE <<Head(sorted)>> \o SortInsert(Tail(sorted), x)
RECURSIVE Sort(_)
Sort(v) == IF v = <<>> THEN <<>> ELSE SortInsert(Sort(Tail(v)), Head(v))

\* a faulty median that takes the middle of the copies without sorting them
MedianOfCopies_Unsorted(values) ==
    LET count == Len(values)
        midIndex == count \div 2
    IN  IF count % 2 = 0
        THEN RoundDiv(At(values, midIndex - 1) + At(values, midIndex), 2)
        ELSE At(values, midIndex)

\* ComputeMedian, for one field: the values are those of window[0 .. sampleCount - 1]
MedianOfCopies(values) ==
    LET sorted == Sort(values)
        count == Len(values)
        midIndex == count \div 2
    IN  IF count % 2 = 0
        THEN RoundDiv(At(sorted, midIndex - 1) + At(sorted, midIndex), 2)
        ELSE At(sorted, midIndex)

\* a faulty ComputeMedian that takes every slot of the ring, filled or not
ComputeMedian_WholeRing(win, count) ==
    IF count = 0 THEN ZeroPitch
    ELSE Pitch(MedianOfCopies([i \in 1..Len(win) |-> win[i].frequency]),
               MedianOfCopies([i \in 1..Len(win) |-> win[i].confidence]))

\* MedianFilter::ComputeMedian
ComputeMedian(win, count) ==
    IF count = 0 THEN ZeroPitch
    ELSE Pitch(MedianOfCopies([i \in 1..count |-> win[i].frequency]),
               MedianOfCopies([i \in 1..count |-> win[i].confidence]))

\* does ComputeMedian allocate: it reserves two vectors of sampleCount floats
ComputeMedianAllocates(count) == count # 0

---------------------------------------------------------------------------
(* HybridStabilizer *)

\* std::clamp(v, lo, hi)
Clamp(v, lo, hi) == IF v < lo THEN lo ELSE IF v > hi THEN hi ELSE v

\* a faulty ComputeAdaptiveAlpha that lowers alpha as the confidence rises
ComputeAdaptiveAlpha_Inverted(config, confidence) ==
    Clamp(FMul(config.baseAlpha, 2 * Scale - confidence), 0, Scale)

\* HybridStabilizer::ComputeAdaptiveAlpha
ComputeAdaptiveAlpha(config, confidence) ==
    Clamp(FMul(config.baseAlpha, Scale + confidence), 0, Scale)

\* HybridStabilizer::Update, stage 2: the new value of emaResult
HybridStabEma(config, isInitialized, current, medianFiltered) ==
    IF ~isInitialized THEN medianFiltered
    ELSE LET adaptiveAlpha == ComputeAdaptiveAlpha(config, medianFiltered.confidence)
         IN  Pitch(Blend(adaptiveAlpha, medianFiltered.frequency, current.frequency),
                   Blend(adaptiveAlpha, medianFiltered.confidence, current.confidence))

---------------------------------------------------------------------------
(* The stabilizer program *)

\* the configurations the program is constructed with
EmaConfigs == {[alpha |-> 0], [alpha |-> Fx(3, 10)], [alpha |-> Fx(1, 2)], [alpha |-> Scale]}
MedianConfigs == {[windowSize |-> w] : w \in {1, 2, 3, 4, 5}}
HybridStabConfigs == {[baseAlpha |-> Fx(3, 10), windowSize |-> 5],
                      [baseAlpha |-> Fx(6, 10), windowSize |-> 3],
                      [baseAlpha |-> Fx(3, 10), windowSize |-> 1]}

\* the pitch readings fed to Update
StabInputs == {Pitch(100 * Scale, Fx(9, 10)), Pitch(440 * Scale, Fx(5, 10)),
               Pitch(880 * Scale, Fx(7, 10)), Pitch(5000 * Scale, Fx(2, 10))}

NoStabCall == [op |-> "none", out |-> ZeroPitch, alloc |-> FALSE]

\* no detector is constructed in the stabilizer program
NoDetector ==
    /\ det = "none"
    /\ yinConfig = YinDefaultConfig
    /\ mpmConfig = MpmDefaultConfig
    /\ hybConfig = HybridDefaultConfig
    /\ yinBuffer = <<>>
    /\ nsdfBuffer = <<>> /\ acfBuffer = <<>> /\ rBuffer = <<>>
    /\ mpmCapacity = 0
    /\ yinUsedCount = 0 /\ mpmUsedCount = 0
    /\ call = NoCall
    /\ detects = 0
    /\ returned = 0

\* the constructors
InitStab ==
    /\ ncall = NoNoteCall
    /\ twin = NoTwin
    /\ NoDetector
    /\ discarded = FALSE
    /\ peer = NoPeer
    /\ stabilized = ZeroPitch /\ initialized = FALSE
    /\ writeIndex = 0 /\ sampleCount = 0
    /\ emaResult = ZeroPitch /\ hstInitialized = FALSE
    /\ history = <<>>
    /\ scall = NoStabCall
    /\ \/ /\ stab = "ema"
          /\ emaConfig \in EmaConfigs
          /\ medConfig = [windowSize |-> 0] /\ window = <<>>
          /\ hstConfig = [baseAlpha |-> 0]
       \/ /\ stab = "median"
          /\ emaConfig = [alpha |-> 0]
          /\ medConfig \in MedianConfigs /\ window = MedianNewWindow(medConfig)
          /\ hstConfig = [baseAlpha |-> 0]
       \/ /\ stab = "hybrid"
          /\ emaConfig = [alpha |-> 0]
          /\ \E c \in HybridStabConfigs :
                /\ medConfig = [windowSize |-> c.windowSize]
                /\ window = MedianNewWindow(medConfig)
                /\ hstConfig = [baseAlpha |-> c.baseAlpha]

stabStatic == <<detVars, ncall, twin, stab, emaConfig, medConfig, hstConfig, peer>>

\* ExponentialMovingAverage::Update
EmaUpdateCall ==
    /\ stab = "ema" /\ Len(history) < MaxUpdates
    /\ UNCHANGED discarded
    /\ \E result \in StabInputs :
         /\ stabilized' = EmaUpdate(emaConfig, initialized, stabilized, result)
         /\ history' = Append(history, result)
    /\ initialized' = TRUE
    /\ scall' = [NoStabCall EXCEPT !.op = "update"]
    /\ UNCHANGED <<stabStatic, window, writeIndex, sampleCount, emaResult, hstInitialized>>

\* ExponentialMovingAverage::GetStabilized
EmaGetStabilizedCall ==
    /\ stab = "ema"
    /\ UNCHANGED discarded
    /\ scall' = [op |-> "get", out |-> stabilized, alloc |-> FALSE]
    /\ UNCHANGED <<stabStatic, stabilized, initialized, window, writeIndex, sampleCount,
                   emaResult, hstInitialized, history>>

\* ExponentialMovingAverage::Reset
EmaResetCall ==
    /\ stab = "ema"
    /\ discarded' = (discarded \/ Len(history) > 0)
    /\ stabilized' = ZeroPitch
    /\ initialized' = FALSE
    /\ history' = <<>>
    /\ scall' = [NoStabCall EXCEPT !.op = "reset"]
    /\ UNCHANGED <<stabStatic, window, writeIndex, sampleCount, emaResult, hstInitialized>>

\* MedianFilter::Update
MedianUpdateCall ==
    /\ stab = "median" /\ Len(history) < MaxUpdates
    /\ UNCHANGED discarded
    /\ \E result \in StabInputs :
         LET u == MedianUpdate(medConfig, window, writeIndex, sampleCount, result)
         IN  /\ window' = u.window
             /\ writeIndex' = u.writeIndex
             /\ sampleCount' = u.sampleCount
             /\ history' = Append(history, result)
    /\ scall' = [NoStabCall EXCEPT !.op = "update"]
    /\ UNCHANGED <<stabStatic, stabilized, initialized, emaResult, hstInitialized>>

\* MedianFilter::GetStabilized
MedianGetStabilizedCall ==
    /\ stab = "median"
    /\ UNCHANGED discarded
    /\ scall' = [op |-> "get", out |-> ComputeMedian(window, sampleCount),
                 alloc |-> ComputeMedianAllocates(sampleCount)]
    /\ UNCHANGED <<stabStatic, stabilized, initialized, window, writeIndex, sampleCount,
                   emaResult, hstInitialized, history>>

\* MedianFilter::Reset
MedianResetCall ==
    /\ stab = "median"
    /\ discarded' = (discarded \/ Len(history) > 0)
    /\ writeIndex' = 0
    /\ sampleCount' = 0
    /\ window' = MedianNewWindow(medConfig)
    /\ history' = <<>>
    /\ scall' = [NoStabCall EXCEPT !.op = "reset"]
    /\ UNCHANGED <<stabStatic, stabilized, initialized, emaResult, hstInitialized>>

\* a faulty HybridStabilizer::Update whose EMA stage reads the raw input instead of
\* the output of the median stage
HybridStabUpdateCall_Raw ==
    /\ stab = "hybrid" /\ Len(history) < MaxUpdates
    /\ UNCHANGED discarded
    /\ \E result \in StabInputs :
         LET u == MedianUpdate(medConfig, window, writeIndex, sampleCount, result)
         IN  /\ window' = u.window
             /\ writeIndex' = u.writeIndex
             /\ sampleCount' = u.sampleCount
             /\ emaResult' = HybridStabEma(hstConfig, hstInitialized, emaResult, result)
             /\ scall' = [op |-> "update", out |-> ZeroPitch,
                          alloc |-> ComputeMedianAllocates(u.sampleCount)]
             /\ history' = Append(history, result)
    /\ hstInitialized' = TRUE
    /\ UNCHANGED <<stabStatic, stabilized, initialized>>

\* HybridStabilizer::Update
HybridStabUpdateCall ==
    /\ stab = "hybrid" /\ Len(history) < MaxUpdates
    /\ UNCHANGED discarded
    /\ \E result \in StabInputs :
         LET u == MedianUpdate(medConfig, window, writeIndex, sampleCount, result)
             medianFiltered == ComputeMedian(u.window, u.sampleCount)
         IN  /\ window' = u.window
             /\ writeIndex' = u.writeIndex
             /\ sampleCount' = u.sampleCount
             /\ emaResult' = HybridStabEma(hstConfig, hstInitialized, emaResult,
                                           medianFiltered)
             /\ scall' = [op |-> "update", out |-> ZeroPitch,
                          alloc |-> ComputeMedianAllocates(u.sampleCount)]
             /\ history' = Append(history, result)
    /\ hstInitialized' = TRUE
    /\ UNCHANGED <<stabStatic, stabilized, initialized>>

\* HybridStabilizer::GetStabilized
HybridStabGetStabilizedCall ==
    /\ stab = "hybrid"
    /\ UNCHANGED discarded
    /\ scall' = [op |-> "get", out |-> emaResult, alloc |-> FALSE]
    /\ UNCHANGED <<stabStatic, stabilized, initialized, window, writeIndex, sampleCount,
                   emaResult, hstInitialized, history>>

\* a faulty HybridStabilizer::Reset that clears the EMA value but leaves initialized set
HybridStabResetCall_KeepsInitialized ==
    /\ stab = "hybrid"
    /\ discarded' = (discarded \/ Len(history) > 0)
    /\ writeIndex' = 0
    /\ sampleCount' = 0
    /\ window' = MedianNewWindow(medConfig)
    /\ emaResult' = ZeroPitch
    /\ history' = <<>>
    /\ scall' = [NoStabCall EXCEPT !.op = "reset"]
    /\ UNCHANGED <<stabStatic, stabilized, initialized, hstInitialized>>

\* HybridStabilizer::Reset
HybridStabResetCall ==
    /\ stab = "hybrid"
    /\ discarded' = (discarded \/ Len(history) > 0)
    /\ writeIndex' = 0
    /\ sampleCount' = 0
    /\ window' = MedianNewWindow(medConfig)
    /\ emaResult' = ZeroPitch
    /\ hstInitialized' = FALSE
    /\ history' = <<>>
    /\ scall' = [NoStabCall EXCEPT !.op = "reset"]
    /\ UNCHANGED <<stabStatic, stabilized, initialized>>

NextStab ==
    \/ EmaUpdateCall
    \/ EmaGetStabilizedCall
    \/ EmaResetCall
    \/ MedianUpdateCall
    \/ MedianGetStabilizedCall
    \/ MedianResetCall
    \/ HybridStabUpdateCall
    \/ HybridStabGetStabilizedCall
    \/ HybridStabResetCall

SpecStab == InitStab /\ [][NextStab]_vars

---------------------------------------------------------------------------
(* The step-response program: two HybridStabilizers of one configuration are fed the
   same frequencies, an old value and then a target, each with its own constant
   confidence. The first instance lives in the HybridStabilizer variables, the second
   in peer. *)

\* HybridStabilizer::Update on an instance st = (window, writeIndex, sampleCount,
\* emaResult, initialized)
HybridStabUpdate(mConfig, hConfig, st, result) ==
    LET u == MedianUpdate(mConfig, st.window, st.writeIndex, st.sampleCount, result)
        medianFiltered == ComputeMedian(u.window, u.sampleCount)
    IN  [window |-> u.window, writeIndex |-> u.writeIndex, sampleCount |-> u.sampleCount,
         emaResult |-> HybridStabEma(hConfig, st.initialized, st.emaResult,
                                     medianFiltered),
         initialized |-> TRUE]

\* the configurations, confidences and frequencies of the step responses
PairConfigs == {[baseAlpha |-> b, windowSize |-> w] :
                   b \in {0, Fx(3, 10), Fx(6, 10), Scale}, w \in {1, 3}}
StepConfidences == {0, Fx(5, 10), Fx(9, 10), Scale}
StepFrequencies == {440 * Scale, 880 * Scale}

InitPair ==
    /\ ncall = NoNoteCall
    /\ twin = NoTwin
    /\ NoDetector
    /\ discarded = FALSE
    /\ stab = "pair"
    /\ emaConfig = [alpha |-> 0]
    /\ stabilized = ZeroPitch /\ initialized = FALSE
    /\ writeIndex = 0 /\ sampleCount = 0
    /\ emaResult = ZeroPitch /\ hstInitialized = FALSE
    /\ history = <<>>
    /\ scall = NoStabCall
    /\ \E c \in PairConfigs :
          /\ medConfig = [windowSize |-> c.windowSize]
          /\ hstConfig = [baseAlpha |-> c.baseAlpha]
          /\ window = MedianNewWindow(medConfig)
    /\ \E hi \in StepConfidences, lo \in StepConfidences, old \in StepFrequencies,
          target \in StepFrequencies :
          /\ lo < hi /\ old # target
          /\ peer = [NoPeer EXCEPT !.window = MedianNewWindow(medConfig),
                                   !.ownConfidence = hi, !.confidence = lo,
                                   !.old = old, !.target = target]

pairStatic == <<detVars, ncall, twin, stab, emaConfig, medConfig, hstConfig, stabilized, initialized>>

\* Update on both instances with the same frequency: the old value until the first
\* target, the target from then on
PairUpdateCall ==
    /\ stab = "pair" /\ Len(history) < MaxUpdates
    /\ UNCHANGED discarded
    /\ \E f \in {peer.old, peer.target} :
         /\ f = peer.old => peer.steps = 0
         /\ f = peer.target => Len(history) >= 1
         /\ LET own == HybridStabUpdate(medConfig, hstConfig,
                          [window |-> window, writeIndex |-> writeIndex,
                           sampleCount |-> sampleCount, emaResult |-> emaResult,
                           initialized |-> hstInitialized],
                          Pitch(f, peer.ownConfidence))
                other == HybridStabUpdate(medConfig, hstConfig, peer,
                                          Pitch(f, peer.confidence))
            IN  /\ window' = own.window
                /\ writeIndex' = own.writeIndex
                /\ sampleCount' = own.sampleCount
                /\ emaResult' = own.emaResult
                /\ hstInitialized' = own.initialized
                /\ peer' = [peer EXCEPT !.window = other.window,
                                        !.writeIndex = other.writeIndex,
                                        !.sampleCount = other.sampleCount,
                                        !.emaResult = other.emaResult,
                                        !.initialized = other.initialized,
                                        !.steps = IF f = peer.target THEN @ + 1 ELSE @]
                /\ history' = Append(history, Pitch(f, peer.ownConfidence))
    /\ scall' = [NoStabCall EXCEPT !.op = "update"]
    /\ UNCHANGED pairStatic

\* GetStabilized on the first instance
PairGetStabilizedCall ==
    /\ stab = "pair"
    /\ UNCHANGED discarded
    /\ scall' = [op |-> "get", out |-> emaResult, alloc |-> FALSE]
    /\ UNCHANGED <<pairStatic, window, writeIndex, sampleCount, emaResult,
                   hstInitialized, history, peer>>

\* Reset on both instances
PairResetCall ==
    /\ stab = "pair"
    /\ discarded' = (discarded \/ Len(history) > 0)
    /\ writeIndex' = 0
    /\ sampleCount' = 0
    /\ window' = MedianNewWindow(medConfig)
    /\ emaResult' = ZeroPitch
    /\ hstInitialized' = FALSE
    /\ peer' = [peer EXCEPT !.window = MedianNewWindow(medConfig), !.writeIndex = 0,
                            !.sampleCount = 0, !.emaResult = ZeroPitch,
                            !.initialized = FALSE, !.steps = 0]
    /\ history' = <<>>
    /\ scall' = [NoStabCall EXCEPT !.op = "reset"]
    /\ UNCHANGED pairStatic

NextPair ==
    \/ PairUpdateCall
    \/ PairGetStabilizedCall
    \/ PairResetCall

SpecPair == InitPair /\ [][NextPair]_vars

---------------------------------------------------------------------------
(* Claims about the detectors (checked under Spec) *)

HybridDetectDone ==
    det = "hybrid" /\ call.op = "detect" /\ Len(call.buffer) > 0 /\ call.sampleRate > 0

\* the selection the arbitration rule prescribes for the inner results y (YIN) and
\* m (MPM, "notinvoked" when it was not asked)
PrescribedSelection(y, m) ==
    IF y.st = "some" /\ y.confidence >= hybConfig.yinConfidenceThreshold THEN y
    ELSE IF m.st = "some" THEN m
    ELSE IF y.st = "some" THEN y
    ELSE NoResult

\* C1: for every non-empty frame and positive sample rate, Hybrid Detect selects the
\* YIN result when YIN returned one with confidence >= yinConfidenceThreshold,
\* otherwise the MPM result when MPM returned one, otherwise the YIN result when there
\* is one; it returns no result iff both returned none; and MPM is invoked only when
\* YIN was not selected in the first step. (A call that faults inside MPM selects and
\* returns nothing; what is said of the invocations holds of it too.)
C1_Arbitration ==
    HybridDetectDone =>
        /\ call.yin.st \in {"none", "some"}
        /\ call.mpmInvoked =
              ~(call.yin.st = "some"
                /\ call.yin.confidence >= hybConfig.yinConfidenceThreshold)
        /\ call.mpmInvoked = (call.mpm.st # "notinvoked")
        /\ ~Crashed =>
              /\ call.selected = PrescribedSelection(call.yin, call.mpm)
              /\ call.out.st = call.selected.st
              /\ (call.out.st = "none")
                    = (call.yin.st = "none" /\ call.mpm.st = "none")

\* C1 witness: YIN returned a result below the threshold, MPM was asked, returned
\* one without undefined behaviour, and it was selected
C1_Witness ==
    /\ HybridDetectDone /\ ~call.oob
    /\ call.yin.st = "some"
    /\ call.yin.confidence < hybConfig.yinConfidenceThreshold
    /\ call.mpm.st = "some"
    /\ call.selected = call.mpm

\* the configured range of the detector that served a standalone call
InConfiguredRange(config, frequency) ==
    /\ TGe(frequency, Num(config.minFrequency * Scale))
    /\ TLe(frequency, Num(config.maxFrequency * Scale))

\* C2: every PitchResult returned by YinPitchDetector::Detect or
\* MpmPitchDetector::Detect has minFrequency <= frequency <= maxFrequency of that
\* detector's configuration. (Calls with undefined behaviour are left out: the
\* statement fails without them.)
C2_FrequencyInRange ==
    (call.op = "detect" /\ call.out.st = "some" /\ ~call.oob) =>
        /\ det = "yin" => InConfiguredRange(yinConfig, call.out.frequency)
        /\ det = "mpm" => InConfiguredRange(mpmConfig, call.out.frequency)

AllZero(buffer) == \A i \in 1..Len(buffer) : buffer[i] = 0

\* the frame-size guard of the detector under test: the frame is not empty, the rate
\* is positive and floor(sampleRate / minFrequency) < N / 2
PassesGuard ==
    /\ Len(call.buffer) > 0 /\ call.sampleRate > 0
    /\ det \in {"yin", "hybrid"} =>
          call.sampleRate \div yinConfig.minFrequency < Len(call.buffer) \div 2
    /\ det = "mpm" =>
          call.sampleRate \div mpmConfig.minFrequency < Len(call.buffer) \div 2

\* C3: an all-zero frame that passes the frame-size guard makes YIN, MPM and Hybrid
\* Detect return no result, without a read outside the scratch buffers or the
\* peak / zero-crossing lists.
C3_SilenceNoResult ==
    (call.op = "detect" /\ PassesGuard /\ AllZero(call.buffer)) =>
        call.out.st = "none" /\ ~call.oob

\* the k of (2, 3, 4) the rule accepts for f: f/k in [80, 400] and
\* |f - k*(f/k)| <= harmonicTolerance * k * (f/k)
\* k * (f / k) as the floats give it: f itself for k = 2 and 4, where the division is
\* exact, and three times the rounded quotient for k = 3
TimesQuotient(f, k) == IF k = 3 THEN k * FDivInt(f, k).v ELSE f.v

AcceptedFactors(f) ==
    {k \in {2, 3, 4} :
        /\ IsNum(f)
        /\ f.v >= k * 80 * Scale
        /\ f.v <= k * 400 * Scale
        /\ Abs(f.v - TimesQuotient(f, k))
              <= FMul(TimesQuotient(f, k), hybConfig.harmonicTolerance)}
SmallestOf(ks) == CHOOSE k \in ks : \A j \in ks : k <= j
PrescribedFrequency(f) ==
    IF AcceptedFactors(f) = {} THEN f ELSE FDivInt(f, SmallestOf(AcceptedFactors(f)))

\* C4: when Hybrid Detect selects a result with frequency f and
\* enableHarmonicRejection is true, the returned frequency is f/k for the smallest k
\* in (2, 3, 4) with 80 <= f/k <= 400 and |f - k*(f/k)| <= harmonicTolerance*k*(f/k),
\* and f when there is no such k; the returned confidence is the selected one; with
\* enableHarmonicRejection false the selected result is returned unchanged.
C4_HarmonicRejection ==
    (HybridDetectDone /\ call.selected.st = "some") =>
        /\ call.out.confidence = call.selected.confidence
        /\ hybConfig.enableHarmonicRejection =>
              call.out.frequency = PrescribedFrequency(call.selected.frequency)
        /\ ~hybConfig.enableHarmonicRejection => call.out = call.selected

\* C4 witness: a selected 960 Hz (third harmonic of 320 Hz: 960/2 is out of range,
\* 960/3 and 960/4 are both in range) is returned as 320 Hz
C4_Witness ==
    /\ HybridDetectDone /\ ~call.oob
    /\ hybConfig.enableHarmonicRejection
    /\ call.selected.st = "some"
    /\ AcceptedFactors(call.selected.frequency) = {3, 4}
    /\ call.out.frequency = FDivInt(call.selected.frequency, 3)

\* the size of the detector's scratch when its constructor returns
ScratchSizeAtConstruction == IF det = "mpm" THEN 0 ELSE maxYinBufferSize

\* C5: Detect on a frame whose half-length exceeds the scratch size fixed at
\* construction returns no result and resizes no scratch buffer (YIN, MPM, Hybrid).
C5_OversizeRejected ==
    (call.op = "detect" /\ Len(call.buffer) \div 2 > ScratchSizeAtConstruction) =>
        call.out.st = "none" /\ ~call.resized

---------------------------------------------------------------------------
(* Claims about the stabilizers (checked under SpecStab) *)

\* C6: no operation after construction allocates memory: Detect of the three
\* detectors, Update and GetStabilized of the three stabilizers.
C6_NoAllocation == ~call.alloc /\ ~scall.alloc

\* the inputs of the last c Update calls, oldest first
LastInputs(c) == SubSeq(history, Len(history) - c + 1, Len(history))
Min(a, b) == IF a < b THEN a ELSE b

\* the k-th smallest (k = 1 for the smallest) of a non-empty sequence of numbers
KthSmallest(values, k) ==
    CHOOSE v \in {values[i] : i \in 1..Len(values)} :
        /\ Cardinality({i \in 1..Len(values) : values[i] < v}) < k
        /\ Cardinality({i \in 1..Len(values) : values[i] <= v}) >= k

\* the median of a non-empty sequence of numbers: the middle value of an odd count,
\* the mean of the two middle values of an even count
MedianOf(values) ==
    LET c == Len(values)
    IN  IF c % 2 = 1 THEN KthSmallest(values, (c + 1) \div 2)
        ELSE RoundDiv(KthSmallest(values, c \div 2) + KthSmallest(values, c \div 2 + 1), 2)

\* the median, field by field, of the last min(n, W) inputs
MedianOfLastInputs ==
    LET last == LastInputs(Min(Len(history), medConfig.windowSize))
    IN  Pitch(MedianOf([i \in 1..Len(last) |-> last[i].frequency]),
              MedianOf([i \in 1..Len(last) |-> last[i].confidence]))

\* C7: after n >= 1 Update calls since construction or Reset on a MedianFilter of
\* window size W, writeIndex = n mod W, sampleCount = min(n, W), and GetStabilized
\* returns, for frequency and for confidence separately, the median of the most
\* recent min(n, W) inputs (the mean of the two middle values for an even count).
C7_MedianOfRecent ==
    (stab = "median" /\ Len(history) >= 1) =>
        /\ writeIndex = Len(history) % medConfig.windowSize
        /\ sampleCount = Min(Len(history), medConfig.windowSize)
        /\ scall.op = "get" => scall.out = MedianOfLastInputs

\* C7 witness: the ring of a window of 4 has wrapped (5 updates), the samples it
\* holds are not all alike, and GetStabilized has returned
C7_Witness ==
    /\ stab = "median" /\ medConfig.windowSize = 4
    /\ Len(history) = 5 /\ writeIndex = 1 /\ sampleCount = 4
    /\ \E i \in 2..5 : history[i].frequency # history[2].frequency
    /\ scall.op = "get"

\* the values v that more than half of the active window samples have as frequency
MajorityFrequencies ==
    {v \in {window[i].frequency : i \in 1..sampleCount} :
        2 * Cardinality({i \in 1..sampleCount : window[i].frequency = v}) > sampleCount}

Frequencies(h) == [i \in 1..Len(h) |-> h[i].frequency]

\* C8: when more than half of the active window samples of a MedianFilter have the
\* frequency v, GetStabilized returns the frequency v; with window size 5 the streams
\* [100, 100, 5000, 100, 100] and [440, 440, 880, 440, 440] yield 100 Hz and 440 Hz.
C8_MajorityWins ==
    (stab = "median" /\ scall.op = "get" /\ Len(history) >= 1) =>
        /\ \A v \in MajorityFrequencies : scall.out.frequency = v
        /\ (medConfig.windowSize = 5
            /\ Frequencies(history)
                 = <<100 * Scale, 100 * Scale, 5000 * Scale, 100 * Scale, 100 * Scale>>)
              => scall.out.frequency = 100 * Scale
        /\ (medConfig.windowSize = 5
            /\ Frequencies(history)
                 = <<440 * Scale, 440 * Scale, 880 * Scale, 440 * Scale, 440 * Scale>>)
              => scall.out.frequency = 440 * Scale

\* C8 witness: the stream with the 5 kHz spike has gone through a window of 5 and
\* GetStabilized has returned 100 Hz
C8_Witness ==
    /\ stab = "median" /\ medConfig.windowSize = 5 /\ scall.op = "get"
    /\ Frequencies(history)
         = <<100 * Scale, 100 * Scale, 5000 * Scale, 100 * Scale, 100 * Scale>>
    /\ scall.out.frequency = 100 * Scale

\* y_1 = x_1, y_n = alpha * x_n + (1 - alpha) * y_(n-1), one field of the inputs h
RECURSIVE EmaFold(_, _)
EmaFold(alpha, xs) ==
    IF Len(xs) = 1 THEN xs[1]
    ELSE LET previous == EmaFold(alpha, SubSeq(xs, 1, Len(xs) - 1))
         IN  RoundDiv(alpha * xs[Len(xs)] + (Scale - alpha) * previous, Scale)

Confidences(h) == [i \in 1..Len(h) |-> h[i].confidence]

\* C9: after n >= 1 Update calls with inputs x1..xn since construction or Reset,
\* GetStabilized of an ExponentialMovingAverage returns y_n with y_1 = x1 and
\* y_n = alpha * xn + (1 - alpha) * y_(n-1), for frequency and confidence alike;
\* with alpha = 1 that is xn and with alpha = 0 it is x1.
C9_EmaRecurrence ==
    (stab = "ema" /\ Len(history) >= 1) =>
        /\ stabilized = Pitch(EmaFold(emaConfig.alpha, Frequencies(history)),
                              EmaFold(emaConfig.alpha, Confidences(history)))
        /\ scall.op = "get" => scall.out = stabilized
        /\ emaConfig.alpha = Scale => stabilized = history[Len(history)]
        /\ emaConfig.alpha = 0 => stabilized = history[1]

\* C9 witness: three updates with 0 < alpha < 1 have left a value that is neither
\* the first nor the last input, and GetStabilized has returned it
C9_Witness ==
    /\ stab = "ema" /\ Len(history) >= 3 /\ scall.op = "get"
    /\ emaConfig.alpha = Fx(3, 10)
    /\ scall.out.frequency # history[1].frequency
    /\ scall.out.frequency # history[Len(history)].frequency

\* the stream of C10 has gone through an ExponentialMovingAverage with alpha = 0.5
C10_StreamDone ==
    /\ stab = "ema" /\ emaConfig.alpha = Fx(1, 2)
    /\ Frequencies(history)
         = <<440 * Scale, 440 * Scale, 880 * Scale, 440 * Scale, 440 * Scale>>

\* C10 as stated: with alpha = 0.5 the frequency stream [440, 440, 880, 440, 440]
\* ends at about 528 Hz (within 1 Hz).
C10_Ends528 ==
    C10_StreamDone => Abs(stabilized.frequency - 528 * Scale) <= Scale

\* C10, amended: with alpha = 0.5 the frequency stream [440, 440, 880, 440, 440]
\* ends at about 495 Hz (within 1 Hz): the values are 440, 440, 660, 550, 495.
C10_Ends495 ==
    C10_StreamDone => Abs(stabilized.frequency - 495 * Scale) <= Scale

\* C10 witness: the stream is done and GetStabilized has returned the value
C10_Witness ==
    C10_StreamDone /\ scall.op = "get" /\ scall.out = stabilized

---------------------------------------------------------------------------
(* Claims about HybridStabilizer (checked under SpecStab) *)

\* the output m of the median stage after the first n inputs of the history
MedianStageAt(n) ==
    LET c == Min(n, medConfig.windowSize)
        last == SubSeq(history, n - c + 1, n)
    IN  Pitch(MedianOf([i \in 1..c |-> last[i].frequency]),
              MedianOf([i \in 1..c |-> last[i].confidence]))

\* a = clamp(baseAlpha * (1 + confidence), 0, 1)
AdaptiveAlphaOf(confidence) ==
    LET a == RoundDiv(hstConfig.baseAlpha * (Scale + confidence), Scale)
    IN  IF a < 0 THEN 0 ELSE IF a > Scale THEN Scale ELSE a

\* the EMA state the two-stage pipeline prescribes after the first n inputs
RECURSIVE PipelineAt(_)
PipelineAt(n) ==
    IF n = 1 THEN MedianStageAt(1)
    ELSE LET m == MedianStageAt(n)
             y == PipelineAt(n - 1)
             a == AdaptiveAlphaOf(m.confidence)
         IN  Pitch(RoundDiv(a * m.frequency + (Scale - a) * y.frequency, Scale),
                   RoundDiv(a * m.confidence + (Scale - a) * y.confidence, Scale))

\* C11: HybridStabilizer::Update feeds the raw input to the median filter and reads
\* its output m; the first Update after construction or Reset sets the EMA state to
\* m, every later one sets each field y to a*m + (1 - a)*y with
\* a = clamp(baseAlpha*(1 + m.confidence), 0, 1), from m and never from the raw
\* input; GetStabilized returns the EMA state.
C11_TwoStagePipeline ==
    (stab = "hybrid" /\ Len(history) >= 1) =>
        /\ hstInitialized
        /\ emaResult = PipelineAt(Len(history))
        /\ scall.op = "get" => scall.out = emaResult

\* C11 witness: after three or more updates the median stage holds back the last raw
\* input, the EMA state is a proper blend, and GetStabilized has returned it
C11_Witness ==
    /\ stab = "hybrid" /\ Len(history) >= 3 /\ scall.op = "get"
    /\ MedianStageAt(Len(history)).frequency # history[Len(history)].frequency
    /\ scall.out.frequency # MedianStageAt(Len(history)).frequency
    /\ scall.out.frequency # PipelineAt(Len(history) - 1).frequency

\* the median stage of both instances has moved to the target
AtTarget ==
    /\ stab = "pair" /\ Len(history) >= 1
    /\ MedianStageAt(Len(history)).frequency = peer.target

\* the distance of a frequency from the target
Distance(frequency) == Abs(frequency - peer.target)

\* C12 as stated: of two HybridStabilizers of one configuration fed the same frequency
\* step, one with confidence c_hi and one with c_lo < c_hi on every frame, the first
\* is strictly closer to the target after each Update at which the median stage has
\* moved to the target, for every baseAlpha in [0, 1] and confidences in [0, 1].
C12_StrictlyFaster ==
    AtTarget => Distance(emaResult.frequency) < Distance(peer.emaResult.frequency)

\* C12, amended: the instance with the higher confidence is never farther from the
\* target, and it is strictly closer when its adaptive alpha is the greater one
\* (baseAlpha > 0 and baseAlpha*(1 + c_lo) < 1, so that the clamp leaves a difference)
\* and the other instance is still more than 1 Hz away.
C12_FasterUnlessClamped ==
    AtTarget =>
        /\ Distance(emaResult.frequency) <= Distance(peer.emaResult.frequency)
        /\ (/\ AdaptiveAlphaOf(peer.ownConfidence) > AdaptiveAlphaOf(peer.confidence)
            /\ Distance(peer.emaResult.frequency) > Scale)
              => Distance(emaResult.frequency) < Distance(peer.emaResult.frequency)

\* C12 witness: the target has been fed twice or more, the median stage is on it, the
\* alphas differ and the first instance is strictly closer
C12_Witness ==
    /\ AtTarget /\ peer.steps >= 2
    /\ AdaptiveAlphaOf(peer.ownConfidence) > AdaptiveAlphaOf(peer.confidence)
    /\ Distance(peer.emaResult.frequency) > Scale
    /\ Distance(emaResult.frequency) < Distance(peer.emaResult.frequency)

\* the state of a freshly constructed instance of the same config after Update was
\* called with the first n inputs of the history
RECURSIVE FreshEma(_)
FreshEma(n) ==
    IF n = 0 THEN [stabilized |-> ZeroPitch, initialized |-> FALSE]
    ELSE LET p == FreshEma(n - 1)
         IN  [stabilized |-> EmaUpdate(emaConfig, p.initialized, p.stabilized, history[n]),
              initialized |-> TRUE]
RECURSIVE FreshMedian(_)
FreshMedian(n) ==
    IF n = 0 THEN [window |-> MedianNewWindow(medConfig), writeIndex |-> 0, sampleCount |-> 0]
    ELSE LET p == FreshMedian(n - 1)
         IN  MedianUpdate(medConfig, p.window, p.writeIndex, p.sampleCount, history[n])
RECURSIVE FreshHybrid(_)
FreshHybrid(n) ==
    IF n = 0 THEN [window |-> MedianNewWindow(medConfig), writeIndex |-> 0, sampleCount |-> 0,
                   emaResult |-> ZeroPitch, initialized |-> FALSE]
    ELSE HybridStabUpdate(medConfig, hstConfig, FreshHybrid(n - 1), history[n])

\* C13: after any Updates followed by Reset, each of ExponentialMovingAverage,
\* MedianFilter and HybridStabilizer is in the state of a freshly constructed instance
\* of the same config, so that the later Updates give the GetStabilized outputs the
\* fresh instance would give: no sample from before the Reset has any influence, and
\* HybridStabilizer clears both the inner median window and the EMA state.
C13_ResetIsFresh ==
    /\ stab = "ema" =>
          /\ [stabilized |-> stabilized, initialized |-> initialized]
                = FreshEma(Len(history))
          /\ scall.op = "get" => scall.out = FreshEma(Len(history)).stabilized
    /\ stab = "median" =>
          /\ [window |-> window, writeIndex |-> writeIndex, sampleCount |-> sampleCount]
                = FreshMedian(Len(history))
          /\ scall.op = "get" =>
                scall.out = ComputeMedian(FreshMedian(Len(history)).window,
                                          FreshMedian(Len(history)).sampleCount)
    /\ stab = "hybrid" =>
          /\ [window |-> window, writeIndex |-> writeIndex, sampleCount |-> sampleCount,
              emaResult |-> emaResult, initialized |-> hstInitialized]
                = FreshHybrid(Len(history))
          /\ scall.op = "get" => scall.out = FreshHybrid(Len(history)).emaResult

\* C13 witness: a Reset of a HybridStabilizer has dropped earlier inputs, two or more
\* Updates have followed and GetStabilized has returned
C13_Witness ==
    /\ stab = "hybrid" /\ discarded
    /\ Len(history) >= 2 /\ scall.op = "get"
    /\ history[1] # history[2]

---------------------------------------------------------------------------
(* More claims about the detectors (checked under Spec) *)

\* the configuration the YIN detector of the program runs with
ActiveYinConfig == yinConfig

\* the CMNDF d' of the frame of the last call, computed from the frame alone
CmndfOfCall ==
    LET h == Len(call.buffer) \div 2
    IN  YinStep2(YinStep1([t \in 1..h |-> 0], call.buffer, h), h)

\* C14: every PitchResult returned by YIN, MPM or Hybrid Detect has
\* 0 <= confidence <= 1; a YIN result has confidence = 1 - d'(tau) for the accepted
\* tau and so lies in [1 - threshold, 1]. (Calls with undefined behaviour are left
\* out: the statement fails without them.)
C14_ConfidenceInRange ==
    (call.op = "detect" /\ call.out.st = "some" /\ ~call.oob) =>
        /\ call.out.confidence >= 0 /\ call.out.confidence <= Scale
        /\ call.yin.st = "some" =>
              /\ call.yin.confidence >= Scale - ActiveYinConfig.threshold
              /\ call.yin.confidence <= Scale
              /\ \E tau \in 0..(Len(call.buffer) \div 2 - 1) :
                    /\ At(CmndfOfCall, tau) < ActiveYinConfig.threshold
                    /\ call.yin.confidence = Scale - At(CmndfOfCall, tau)

\* the first guard of each Detect: an empty frame or a sample rate that is not positive
GuardedInput(buffer, sampleRate) == Len(buffer) = 0 \/ sampleRate <= 0

\* the frame is too short for the low-frequency bound of a configuration
TooShortFor(config, buffer, sampleRate) ==
    /\ ~GuardedInput(buffer, sampleRate)
    /\ sampleRate \div config.minFrequency >= Len(buffer) \div 2

\* the usage counters of HybridPitchDetector are as the step found them
CountersUnchanged == yinUsedCount' = yinUsedCount /\ mpmUsedCount' = mpmUsedCount

\* C15: YIN, MPM and Hybrid Detect return no result for an empty frame or a sample
\* rate <= 0; YIN and MPM also return no result when floor(sampleRate / minFrequency)
\* >= floor(N / 2); in all these cases the Hybrid usage counters are left unchanged.
C15_InputGuards ==
    [][(call'.op = "detect" /\ detects' = detects + 1) =>
          LET buffer == call'.buffer
              sampleRate == call'.sampleRate
          IN  /\ GuardedInput(buffer, sampleRate) =>
                    call'.out = NoResult /\ CountersUnchanged
              /\ (det = "yin" /\ TooShortFor(yinConfig, buffer, sampleRate)) =>
                    call'.out = NoResult
              /\ (det = "mpm" /\ TooShortFor(mpmConfig, buffer, sampleRate)) =>
                    call'.out = NoResult
              /\ (det = "hybrid" /\ TooShortFor(yinConfig, buffer, sampleRate)) =>
                    call'.yin = NoResult
              /\ (det = "hybrid" /\ TooShortFor(mpmConfig, buffer, sampleRate)
                                 /\ call'.mpmInvoked) =>
                    call'.mpm = NoResult
              /\ (det = "hybrid" /\ TooShortFor(yinConfig, buffer, sampleRate)
                                 /\ TooShortFor(mpmConfig, buffer, sampleRate)) =>
                    call'.out = NoResult /\ CountersUnchanged]_vars

\* a Hybrid Detect on a frame too short for both inner detectors, after a call that
\* counted a result
C15_Witness ==
    /\ det = "hybrid" /\ call.op = "detect"
    /\ TooShortFor(yinConfig, call.buffer, call.sampleRate)
    /\ TooShortFor(mpmConfig, call.buffer, call.sampleRate)
    /\ call.mpmInvoked /\ call.mpm = NoResult
    /\ call.out = NoResult
    /\ yinUsedCount + mpmUsedCount > 0

---------------------------------------------------------------------------
(* NoteConverter::NoteNameToMidi *)

\* A std::string is the sequence of its characters.
NOTE_NAMES ==
    << <<"C">>, <<"C", "#">>, <<"D">>, <<"D", "#">>, <<"E">>, <<"F">>, <<"F", "#">>,
       <<"G">>, <<"G", "#">>, <<"A">>, <<"A", "#">>, <<"B">> >>

\* NOTE_NAMES[i], i counted from zero
NoteNameAt(i) == NOTE_NAMES[i + 1]

\* the first loop: the first i with noteName == NOTE_NAMES[i], or -1
RECURSIVE FindNoteName(_, _)
FindNoteName(noteName, i) ==
    IF i >= Len(NOTE_NAMES) THEN -1
    ELSE IF noteName = NoteNameAt(i) THEN i
    ELSE FindNoteName(noteName, i + 1)

\* the second loop: i - 1 for the first i > 0 whose name starts with noteName[0], or -1
RECURSIVE FindFlat(_, _)
FindFlat(noteName, i) ==
    IF i >= Len(NOTE_NAMES) THEN -1
    ELSE IF i > 0 /\ noteName[1] = NoteNameAt(i)[1] THEN i - 1
    ELSE FindFlat(noteName, i + 1)

MidiOf(v) == [st |-> "ok", v |-> v]
InvalidArgument == [st |-> "invalid_argument", v |-> 0]

\* NoteConverter::NoteNameToMidi: the returned number, or the exception thrown
NoteNameToMidi(noteName, octave) ==
    LET exact == FindNoteName(noteName, 0)
        noteIndex == IF exact = -1 /\ Len(noteName) = 2 /\ noteName[2] = "b"
                     THEN FindFlat(noteName, 0)
                     ELSE exact
    IN  IF noteIndex = -1 THEN InvalidArgument
        ELSE MidiOf((octave + 1) * 12 + noteIndex)

\* the characters and lengths of the names, and the octaves, that the callers pass
NameChars  == {"A", "B", "C", "D", "E", "F", "G", "H", "#", "b"}
MaxNameLen == 2
MaxOctave  == 9
NoteNames  == UNION {[1..n -> NameChars] : n \in 0..MaxNameLen}
Octaves    == -1..MaxOctave

InitNote ==
    /\ ncall = NoNoteCall
    /\ twin = NoTwin
    /\ NoDetector
    /\ NoStabilizer

\* a call of NoteConverter::NoteNameToMidi
NoteNameToMidiCall ==
    /\ \E noteName \in NoteNames, octave \in Octaves :
          ncall' = [op |-> "NoteNameToMidi", noteName |-> noteName, octave |-> octave,
                    out |-> NoteNameToMidi(noteName, octave)]
    /\ UNCHANGED <<detVars, stabVars, twin>>

NextNote == NoteNameToMidiCall

SpecNote == InitNote /\ [][NextNote]_vars

\* the letters of the natural notes
NoteLetters == {"C", "D", "E", "F", "G", "A", "B"}

\* the sharp names: the entries of the chromatic table
IsTableName(noteName) == \E i \in 0..(Len(NOTE_NAMES) - 1) : noteName = NoteNameAt(i)

\* a natural letter followed by b
IsFlatName(noteName) ==
    Len(noteName) = 2 /\ noteName[1] \in NoteLetters /\ noteName[2] = "b"

\* C16: NoteNameToMidi("Xb", o) = NoteNameToMidi("X", o) - 1 for every letter X in
\* C, D, E, F, G, A, B and every octave o; every name of the chromatic table maps to
\* (o + 1) * 12 + its index; any other name is a failed operation.
C16_FlatsAndSharps ==
    ncall.op = "NoteNameToMidi" =>
        LET noteName == ncall.noteName
            octave == ncall.octave
        IN  /\ IsTableName(noteName) =>
                 \E i \in 0..(Len(NOTE_NAMES) - 1) :
                     /\ noteName = NoteNameAt(i)
                     /\ ncall.out = MidiOf((octave + 1) * 12 + i)
            /\ IsFlatName(noteName) =>
                 /\ ncall.out.st = "ok"
                 /\ ncall.out.v = NoteNameToMidi(<<noteName[1]>>, octave).v - 1
            /\ (~IsTableName(noteName) /\ ~IsFlatName(noteName)) =>
                 ncall.out = InvalidArgument

\* the guards of YinPitchDetector::Detect pass for the last call
YinGuardsPass ==
    /\ call.op = "detect" /\ call.yin.st # "notinvoked"
    /\ ~GuardedInput(call.buffer, call.sampleRate)
    /\ ~TooShortFor(ActiveYinConfig, call.buffer, call.sampleRate)
    /\ Len(call.buffer) \div 2 <= maxYinBufferSize

\* the lags of [minTau, maxTau) whose CMNDF value is below the threshold
LagsBelowThreshold ==
    {tau \in (call.sampleRate \div ActiveYinConfig.maxFrequency) ..
                 (call.sampleRate \div ActiveYinConfig.minFrequency - 1) :
        At(CmndfOfCall, tau) < ActiveYinConfig.threshold}

FirstLag == CHOOSE tau \in LagsBelowThreshold : \A t \in LagsBelowThreshold : tau <= t

\* C17: YIN Detect on a frame passing the guards returns a result if and only if some
\* tau in [minTau, maxTau) has d'(tau) < threshold, and the result is computed from the
\* smallest such tau, with minTau = floor(sampleRate / maxFrequency) and
\* maxTau = floor(sampleRate / minFrequency).
C17_FirstCrossing ==
    YinGuardsPass =>
        /\ call.yin.st = "some" <=> LagsBelowThreshold # {}
        /\ call.yin.st \in {"some", "none"}
        /\ call.yin.st = "some" =>
              call.yin = YinResultAt(CmndfOfCall, FirstLag, Len(call.buffer) \div 2,
                                     call.sampleRate)

\* a result taken from a first crossing that is above minTau and is not the lowest point
\* of the CMNDF in the range
C17_Witness ==
    /\ YinGuardsPass /\ call.yin.st = "some"
    /\ FirstLag > call.sampleRate \div ActiveYinConfig.maxFrequency
    /\ \E tau \in LagsBelowThreshold : At(CmndfOfCall, tau) < At(CmndfOfCall, FirstLag)

\* the guards of MpmPitchDetector::Detect pass for the last call
MpmGuardsPass ==
    /\ call.op = "detect" /\ call.mpmInvoked
    /\ ~GuardedInput(call.buffer, call.sampleRate)
    /\ ~TooShortFor(mpmConfig, call.buffer, call.sampleRate)

NsdfOfCall == ComputeNSDF(call.buffer).nsdf

\* the positive-going zero crossings of the NSDF
Crossings ==
    {i \in 1..(Len(NsdfOfCall) - 1) : At(NsdfOfCall, i - 1) <= 0 /\ At(NsdfOfCall, i) > 0}

ConsecutiveCrossings ==
    {p \in Crossings \X Crossings :
        p[1] < p[2] /\ ~\E c \in Crossings : p[1] < c /\ c < p[2]}

\* the first index holding the greatest NSDF value among the indices of S
FirstGreatest(S) ==
    CHOOSE j \in S : \A k \in S : \/ At(NsdfOfCall, k) < At(NsdfOfCall, j)
                                  \/ At(NsdfOfCall, k) = At(NsdfOfCall, j) /\ j <= k

\* the maxima between consecutive crossings that reach the threshold
Candidates ==
    {j \in {FirstGreatest(p[1]..(p[2] - 1)) : p \in ConsecutiveCrossings} :
        At(NsdfOfCall, j) >= mpmConfig.threshold}

\* C18: the MPM candidates are the maxima of the NSDF between each pair of consecutive
\* positive-going zero crossings whose value is >= threshold; Detect returns the
\* candidate with the greatest value (the lowest-tau one on a tie), and no result when
\* there is no candidate.
C18_PeakPicking ==
    MpmGuardsPass =>
        IF Candidates = {} THEN call.mpm = NoResult
        ELSE LET tau == FirstGreatest(Candidates)
             IN  call.mpm = Some(FrequencyOf(call.sampleRate,
                                             ParabolicInterpolation(NsdfOfCall, tau)),
                                 At(NsdfOfCall, tau))

\* 2 * (2 * s1 - s2 - s0) for the three neighbours of tau
ParabolicDenominator(buf, tau) == 2 * (2 * At(buf, tau) - At(buf, tau + 1) - At(buf, tau - 1))

\* a returned frequency that is a finite positive number
FinitePositive(r) == r.st = "some" => (IsNum(r.frequency) /\ r.frequency.v > 0)

\* C19: in YIN and in MPM, when the denominator 2 * (2 * s1 - s2 - s0) at the chosen tau
\* is zero the refined tau is the integer tau, and every returned frequency is a finite
\* positive number. (Calls with undefined behaviour are left out: the statement fails
\* without them.)
C19_NoDivisionByZero ==
    (call.op = "detect" /\ ~call.oob) =>
        /\ FinitePositive(call.yin) /\ FinitePositive(call.mpm)
        /\ (YinGuardsPass /\ call.yin.st = "some" /\ FirstLag > 0
               /\ FirstLag < Len(call.buffer) \div 2 - 1
               /\ ParabolicDenominator(CmndfOfCall, FirstLag) = 0) =>
              call.yin.frequency = FrequencyOf(call.sampleRate, Num(FirstLag * Scale))
        /\ (MpmGuardsPass /\ call.mpm.st = "some"
               /\ FirstGreatest(Candidates) < Len(NsdfOfCall) - 1
               /\ ParabolicDenominator(NsdfOfCall, FirstGreatest(Candidates)) = 0) =>
              call.mpm.frequency = FrequencyOf(call.sampleRate,
                                               Num(FirstGreatest(Candidates) * Scale))

\* a step of HybridPitchDetector::Detect, and one of Reset
HybridDetectStep == det = "hybrid" /\ call'.op = "detect" /\ detects' = detects + 1
HybridResetStep  == det = "hybrid" /\ call'.op = "reset" /\ detects' = 0

\* the step counts one use of YIN, or one use of MPM, and leaves the other counter
CountsYin == yinUsedCount' = yinUsedCount + 1 /\ mpmUsedCount' = mpmUsedCount
CountsMpm == mpmUsedCount' = mpmUsedCount + 1 /\ yinUsedCount' = yinUsedCount

\* C20: yinUsedCount + mpmUsedCount is the number of Detect calls since construction or
\* the last Reset that returned a result; a Detect that returns a result increments
\* exactly the counter of the detector whose result was selected, a Detect that returns
\* none changes neither, and Reset zeroes both and resets both inner detectors.
C20_UsageCounters ==
    /\ [](det = "hybrid" => yinUsedCount + mpmUsedCount = returned)
    /\ [][/\ (HybridDetectStep /\ call'.out.st = "some") =>
                \/ call'.selected = call'.yin /\ CountsYin
                \/ call'.mpmInvoked /\ call'.selected = call'.mpm /\ CountsMpm
          /\ (HybridDetectStep /\ call'.out.st # "some") => CountersUnchanged
          /\ HybridResetStep =>
                /\ yinUsedCount' = 0 /\ mpmUsedCount' = 0
                /\ yinBuffer' = YinResetBuffer(yinBuffer)
                /\ <<acfBuffer', rBuffer', nsdfBuffer'>> = <<<<>>, <<>>, <<>>>>]_vars

\* both detectors have been used once, the second call having returned MPM's result
C20_Witness ==
    /\ det = "hybrid" /\ call.op = "detect"
    /\ yinUsedCount = 1 /\ mpmUsedCount = 1
    /\ call.out.st = "some" /\ call.mpmInvoked /\ call.selected = call.mpm
    /\ call.yin # call.mpm

---------------------------------------------------------------------------
(* Two detector instances side by side *)

\* the members of a detector instance, as a record (a YIN or MPM detector uses its part)
DetectorState(hConfig, yConfig, mConfig, yBuf, bufs, capacity, yinUsed, mpmUsed) ==
    [hybConfig |-> hConfig, yinConfig |-> yConfig, mpmConfig |-> mConfig,
     yinBuffer |-> yBuf, bufs |-> bufs, capacity |-> capacity,
     yinUsed |-> yinUsed, mpmUsed |-> mpmUsed]

\* the instance held in the variables of the detector program
PrimaryState ==
    DetectorState(hybConfig, yinConfig, mpmConfig, yinBuffer, MpmBuffers, mpmCapacity,
                  yinUsedCount, mpmUsedCount)

\* Detect of a detector of the given kind: the possible outcomes, each the members it
\* leaves, the value it returns and whether it read out of bounds
DetectOutcomes(kind, s, buffer, sampleRate) ==
    CASE kind = "yin" ->
           LET d == YinDetect(s.yinConfig, s.yinBuffer, buffer, sampleRate)
           IN  {[state |-> [s EXCEPT !.yinBuffer = d.buf], out |-> d.res, oob |-> FALSE]}
      [] kind = "mpm" ->
           {[state |-> [s EXCEPT !.bufs = d.bufs, !.capacity = d.capacity],
             out |-> d.res, oob |-> d.oob] :
                d \in MpmDetect(s.mpmConfig, s.bufs, s.capacity, buffer, sampleRate)}
      [] OTHER ->
           {[state |-> [s EXCEPT !.yinBuffer = d.yBuf, !.bufs = d.bufs,
                                 !.capacity = d.capacity, !.yinUsed = d.yinUsed,
                                 !.mpmUsed = d.mpmUsed],
             out |-> d.out, oob |-> d.oob] :
                d \in HybridDetect(s.hybConfig, s.yinConfig, s.mpmConfig, s.yinBuffer,
                                   s.bufs, s.capacity, s.yinUsed, s.mpmUsed, buffer,
                                   sampleRate)}

\* Reset of a detector of the given kind: the members it leaves
ResetState(kind, s) ==
    CASE kind = "yin" -> [s EXCEPT !.yinBuffer = YinResetBuffer(s.yinBuffer)]
      [] kind = "mpm" -> [s EXCEPT !.bufs = MpmEmptyBuffers]
      [] OTHER -> [s EXCEPT !.yinBuffer = YinResetBuffer(s.yinBuffer),
                            !.bufs = MpmEmptyBuffers, !.yinUsed = 0, !.mpmUsed = 0]

\* the pairs of configurations the two instances are constructed with: the same, or
\* two Hybrid configurations that differ in yinConfig only
TwinConfigs ==
    {[kind |-> "yin", hyb |-> HybridDefaultConfig, yin |-> c, yinTwin |-> c,
      mpm |-> MpmDefaultConfig] : c \in YinConfigs}
    \cup {[kind |-> "mpm", hyb |-> HybridDefaultConfig, yin |-> YinDefaultConfig,
           yinTwin |-> YinDefaultConfig, mpm |-> c] : c \in MpmConfigs}
    \cup {[kind |-> "hybrid", hyb |-> c.hyb, yin |-> c.yin, yinTwin |-> y, mpm |-> c.mpm] :
              c \in HybridConfigs,
              y \in {YinDefaultConfig,
                     [threshold |-> Fx(50, 100), minFrequency |-> 100, maxFrequency |-> 1000]}}

\* the inputs of the calls made on both instances, and of those made on one alone
TwinInputs ==
    ({Periodic(<<1, -1>>, FrameLen), Periodic(<<1, 1, -1>>, FrameLen)} \X {LowRate, HighRate})
    \cup ({Periodic(<<2, 2, -1, -2, 1>>, FrameLen), Silent(FrameLen)} \X {LowRate})
SoloInputs ==
    {Periodic(<<1, 1, -1>>, FrameLen - 2), Periodic(<<1, -1>>, LongLen),
     Periodic(<<0, 1, 2, 1, 1, 0>>, FrameLen)} \X {LowRate}

InitTwin ==
    /\ ncall = NoNoteCall
    /\ NoStabilizer
    /\ nsdfBuffer = <<>> /\ acfBuffer = <<>> /\ rBuffer = <<>>
    /\ mpmCapacity = 0
    /\ yinUsedCount = 0 /\ mpmUsedCount = 0
    /\ call = NoCall
    /\ detects = 0
    /\ returned = 0
    /\ \E c \in TwinConfigs :
          /\ det = c.kind
          /\ yinBuffer = YinNewBuffer
          /\ hybConfig = c.hyb
          /\ mpmConfig = c.mpm
          /\ yinConfig = IF c.kind = "hybrid" THEN HybridYinConfig(c.yin) ELSE c.yin
          /\ twin = [op |-> "new",
                     given |-> [yin |-> c.yin, mpm |-> c.mpm],
                     givenTwin |-> [yin |-> c.yinTwin, mpm |-> c.mpm],
                     state |-> DetectorState(c.hyb,
                                             IF c.kind = "hybrid"
                                             THEN HybridYinConfig(c.yinTwin) ELSE c.yinTwin,
                                             c.mpm, YinNewBuffer, MpmEmptyBuffers, 0, 0, 0),
                     out |-> NoResult, oob |-> FALSE, detects |-> 0, together |-> TRUE]

\* the variables of the first instance after a call that leaves it in state s
PrimaryBecomes(s) ==
    /\ yinBuffer' = s.yinBuffer
    /\ nsdfBuffer' = s.bufs.nsdf /\ acfBuffer' = s.bufs.acf /\ rBuffer' = s.bufs.r
    /\ mpmCapacity' = s.capacity
    /\ yinUsedCount' = s.yinUsed /\ mpmUsedCount' = s.mpmUsed

twinStatic == <<det, yinConfig, mpmConfig, hybConfig, stabVars, ncall>>

\* Detect is called on both instances with the same frame
TwinDetectCall ==
    /\ ~Crashed /\ twin.out.st # "crash"
    /\ detects < MaxCalls /\ twin.detects < MaxCalls
    /\ \E in \in TwinInputs :
         \E a \in DetectOutcomes(det, PrimaryState, in[1], in[2]),
            b \in DetectOutcomes(det, twin.state, in[1], in[2]) :
             /\ PrimaryBecomes(a.state)
             /\ call' = [NoCall EXCEPT !.op = "detect", !.buffer = in[1],
                                       !.sampleRate = in[2], !.out = a.out, !.oob = a.oob]
             /\ returned' = IF a.out.st = "some" THEN returned + 1 ELSE returned
             /\ twin' = [twin EXCEPT !.op = "detect", !.state = b.state, !.out = b.out,
                                     !.oob = b.oob, !.detects = twin.detects + 1]
    /\ detects' = detects + 1
    /\ UNCHANGED twinStatic

\* Detect is called on the second instance alone
TwinSoloDetectCall ==
    /\ ~Crashed /\ twin.out.st # "crash"
    /\ twin.detects < MaxCalls
    /\ \E in \in SoloInputs :
         \E b \in DetectOutcomes(det, twin.state, in[1], in[2]) :
             twin' = [twin EXCEPT !.op = "solo", !.state = b.state, !.out = b.out,
                                  !.oob = b.oob, !.detects = twin.detects + 1,
                                  !.together = FALSE]
    /\ UNCHANGED <<detVars, stabVars, ncall>>

\* Reset is called on the second instance alone
TwinSoloResetCall ==
    /\ ~Crashed /\ twin.out.st # "crash"
    /\ twin' = [twin EXCEPT !.op = "reset", !.state = ResetState(det, twin.state),
                            !.out = NoResult, !.oob = FALSE, !.detects = 0,
                            !.together = FALSE]
    /\ UNCHANGED <<detVars, stabVars, ncall>>

\* Reset is called on both instances
TwinResetCall ==
    /\ ~Crashed /\ twin.out.st # "crash"
    /\ PrimaryBecomes(ResetState(det, PrimaryState))
    /\ call' = [NoCall EXCEPT !.op = "reset"]
    /\ detects' = 0
    /\ returned' = 0
    /\ twin' = [twin EXCEPT !.op = "reset", !.state = ResetState(det, twin.state),
                            !.out = NoResult, !.oob = FALSE, !.detects = 0]
    /\ UNCHANGED twinStatic

NextTwin ==
    \/ TwinDetectCall
    \/ TwinSoloDetectCall
    \/ TwinSoloResetCall
    \/ TwinResetCall

SpecTwin == InitTwin /\ [][NextTwin]_vars

---------------------------------------------------------------------------
(* Claims about the harmonic rejection and the configuration of HybridPitchDetector *)

\* a Hybrid Detect with harmonic rejection enabled has returned a result whose selected
\* frequency is a number
RejectionApplied ==
    /\ det = "hybrid" /\ call.op = "detect" /\ call.out.st = "some"
    /\ hybConfig.enableHarmonicRejection /\ hybConfig.harmonicTolerance >= 0
    /\ IsNum(call.selected.frequency) /\ IsNum(call.out.frequency)

SelectedHz == call.selected.frequency.v
ReturnedHz == call.out.frequency.v

\* lo < f <= hi, in Hz
InHz(f, lo, hi) == f > lo * Scale /\ f <= hi * Scale

\* the returned frequency is outside (400, 1600], and frequencies below 160 Hz or above
\* 1600 Hz, [160, 800] and (1200, 1600] are treated as the intervals say
OutsideThird ==
    /\ ~InHz(ReturnedHz, 400, 1600)
    /\ (SelectedHz >= 160 * Scale /\ SelectedHz <= 800 * Scale) =>
           ReturnedHz = RoundDiv(SelectedHz, 2)
    /\ InHz(SelectedHz, 1200, 1600) => ReturnedHz = RoundDiv(SelectedHz, 4)
    /\ (SelectedHz < 160 * Scale \/ SelectedHz > 1600 * Scale) => ReturnedHz = SelectedHz

\* C21: with enableHarmonicRejection and harmonicTolerance >= 0 Detect never returns a
\* frequency in (400, 1600] Hz: a selected frequency in [160, 800] is halved, one in
\* (800, 1200] is divided by 3, one in (1200, 1600] by 4; below 160 Hz and above
\* 1600 Hz it passes unchanged.
C21_HarmonicIntervals ==
    RejectionApplied =>
        /\ OutsideThird
        /\ InHz(SelectedHz, 800, 1200) => ReturnedHz = RoundDiv(SelectedHz, 3)

\* (f / 3) * 3 is within the tolerance of f
ThirdRecognised ==
    LET expected == 3 * RoundDiv(SelectedHz, 3)
    IN  Abs(SelectedHz - expected) <= FMul(expected, hybConfig.harmonicTolerance)

\* C21, amended: as above, but a selected frequency in (800, 1200] is divided by 3 only
\* if (f / 3) * 3 is within harmonicTolerance of f, which the rounding of the division
\* can prevent when the tolerance is zero; otherwise it is divided by 4.
C21_HarmonicIntervalsRounded ==
    RejectionApplied =>
        /\ OutsideThird
        /\ InHz(SelectedHz, 800, 1200) =>
              ReturnedHz = IF ThirdRecognised THEN RoundDiv(SelectedHz, 3)
                           ELSE RoundDiv(SelectedHz, 4)

\* with tolerance zero a frequency in (800, 1200] has come back divided by 4
C21_Witness ==
    /\ RejectionApplied /\ ~call.oob
    /\ hybConfig.harmonicTolerance = 0
    /\ InHz(SelectedHz, 800, 1200) /\ ~ThirdRecognised
    /\ ReturnedHz = RoundDiv(SelectedHz, 4)

\* the two instances were constructed as Hybrid detectors and every call so far was
\* made on both
SameCallsOnBoth == det = "hybrid" /\ twin.op \in {"new", "detect", "reset"} /\ twin.together

\* C22: the result of HybridPitchDetector::Detect does not depend on config.yinConfig:
\* the constructor replaces its threshold, minFrequency and maxFrequency by 0.10, 80
\* and 1200, so two Hybrid detectors that differ only in yinConfig return identical
\* results on every frame sequence; config.mpmConfig reaches the inner MPM unchanged.
C22_YinConfigIgnored ==
    SameCallsOnBoth =>
        /\ yinConfig = [twin.given.yin EXCEPT !.threshold = Fx(10, 100),
                                              !.minFrequency = 80, !.maxFrequency = 1200]
        /\ twin.state.yinConfig = [twin.givenTwin.yin EXCEPT !.threshold = Fx(10, 100),
                                                             !.minFrequency = 80,
                                                             !.maxFrequency = 1200]
        /\ mpmConfig = twin.given.mpm /\ twin.state.mpmConfig = twin.givenTwin.mpm
        /\ twin.op = "detect" => call.out = twin.out

\* Detect has just been called on both instances, which were constructed with the same
\* configuration
SameConfigSameFrame == twin.op = "detect" /\ twin.given = twin.givenTwin

\* C23: for YIN, MPM and Hybrid the value returned by Detect depends only on the frame,
\* the sample rate and the config, never on earlier Detect calls (frames of another
\* length included) or on Reset calls: two instances with the same config given the
\* same frame return the same result whatever their call histories.
C23_HistoryIndependent == SameConfigSameFrame => call.out = twin.out

=============================================================================
